---- MODULE Spec2Model ----
(***************************************************************************)
(* Annotation lifecycle of the PDF data viewer: the in-memory Collection   *)
(* (AnnotationHandler.annotations), the Store (AnnotationDB, table         *)
(* annotations), the highlight marks of the open document (PDFDocument)    *)
(* and the handlers of MainWindow / PDFViewer that tie them together.      *)
(*                                                                         *)
(* All handlers run on the UI thread and the classification dialog is      *)
(* modal, so every handler is one atomic action.                           *)
(***************************************************************************)
EXTENDS Integers, Sequences, FiniteSets, TLC

(***************************************************************************)
(* Bounds of the model.                                                    *)
(***************************************************************************)
\* pages of every document that is opened (page_count)
NumPages == 3
\* annotations the selections of a run may add: a selection is made only
\* while fewer than this were added and there is room for one per page of it
MaxAdd == 4
\* the same, for the runs with a failing database
MaxFaultAdd == 2
\* the same, for the runs with several documents
MaxFileAdd == 3
\* the same, for the runs with date fields
MaxDateAdd == 2
\* the same, for the runs with a document that comes with annotations
MaxAnnotatedAdd == 3
\* the number of rows the runs on the database alone insert
MaxStoreAdd == 3
\* the number of add_annotation calls in the runs with indices out of range
MaxEdgeAdd == 2
\* the same, in the runs with highlights that fail
MaxHighlightAdd == 2

\* marks a run of the export specification may create
MaxExportAdd == 2

\* marks a run of the specification of the remembered line item number may create
MaxRememberAdd == 2

\* marks a run of the specification of the fragment rectangles may create
MaxRectAdd == 3

\* marks a run of the specification of the mouse events may create
MaxMouseAdd == 2

Pages == 0 .. (NumPages - 1)

(***************************************************************************)
(* config.py                                                               *)
(***************************************************************************)
DATE_FIELDS == {"rfq_date", "due_date", "requested_delivery_date"}

META_FIELDS == {"document_name", "customer_name", "buyer_name", "currency", "rfq_date", "due_date"}

LINE_ITEM_FIELDS == {"material_number", "part_number", "description", "full_description", "quantity", "unit_of_measure", "requested_delivery_date", "delivery_point", "manufacturer_name"}

(***************************************************************************)
(* Values.  A text is a sequence of tokens; Absent stands for a dict key   *)
(* that is not there / a NULL column; None for Python's None.              *)
(***************************************************************************)
Absent == "ABSENT"

None == [type |-> "NONE", field |-> "", line_item_number |-> "", standardized_date |-> Absent]

\* the dialog's cancellation signal (dialog.exec() # QDialog.Accepted)
Cancel == [type |-> "CANCEL", field |-> "", line_item_number |-> "", standardized_date |-> Absent]

\* attribute not set on the object (hasattr(self, ...) is False)
NoAttr == -1

\* findPageAt for a point that is on no page
NoPage == -1

DateTokens == {"2024/03/07", "2024-03-07"}

IsSpace(c) == c \in {" ", "\n"}

RECURSIVE LStrip(_)
LStrip(s) == IF s # <<>> /\ IsSpace(Head(s)) THEN LStrip(Tail(s)) ELSE s

RECURSIVE RStrip(_)
RStrip(s) == IF s # <<>> /\ IsSpace(s[Len(s)]) THEN RStrip(SubSeq(s, 1, Len(s) - 1)) ELSE s

\* str.strip()
Strip(s) == RStrip(LStrip(s))

\* text.replace('[', '').replace(']', '')
RemoveBrackets(s) == SelectSeq(s, LAMBDA c : c \notin {"[", "]"})

\* dateutil.parser.parse followed by strftime("%Y-%m-%d"): a text that is one
\* date parses, anything else raises
ParseDate(s) == IF Len(s) = 1 /\ s[1] \in DateTokens THEN "2024-03-07" ELSE Absent

\* utils/date_utils.py standardize_date: the canonical date as one string,
\* Absent for the None result
standardize_date(date_str) ==
    IF date_str = <<>> THEN Absent
    ELSE LET cleaned_date_str == Strip(RemoveBrackets(date_str))
         IN  IF cleaned_date_str = <<>> THEN Absent ELSE ParseDate(cleaned_date_str)

\* a clean_text_for_date_field that removes the brackets and keeps the
\* whitespace
clean_text_brackets_only(text, field_type) ==
    IF field_type \in DATE_FIELDS THEN RemoveBrackets(text) ELSE text

\* AnnotationHandler.clean_text_for_date_field
clean_text_for_date_field(text, field_type) ==
    IF field_type \in DATE_FIELDS THEN Strip(RemoveBrackets(text)) ELSE text

(***************************************************************************)
(* State.                                                                  *)
(***************************************************************************)
VARIABLES
    annotations,                \* AnnotationHandler.annotations (the Collection)
    last_line_item_number,      \* AnnotationHandler.last_line_item_number
    marks,                      \* highlight marks of the open document, per page, in page.annots() order
    stale,                      \* pages whose marks changed since the page was last rendered
    store,                      \* rows of table annotations
    nextId,                     \* the next AUTOINCREMENT id
    nextMark,                   \* number the next mark a selection creates is known by (1 + add_annotation calls so far)
    current_file,               \* MainWindow.current_file
    last_field_info,            \* MainWindow.last_field_info
    last_annotation_group_id,   \* MainWindow.last_annotation_group_id
    clock,                      \* time.time() in milliseconds
    pending,                    \* ids of the rows inserted in the connection's open transaction (commit failed)
    dialogs,                    \* the fragments the classification dialog was opened on by the handler that ran last
    prefill,                    \* the text the line item number input of each of these dialogs was opened with
    messages,                   \* the status bar messages and message boxes the handler that ran last showed, in order
    is_selecting,               \* PDFViewer.is_selecting
    selection_start,            \* PDFViewer.selection_start: the page the drag started on (NoPage: on no page)
    selection_rect,             \* PDFViewer.selection_rect: <<>> for None, or the pages of its top left and bottom right corners
    csv,                        \* the destination file of the export: whether it exists, and its rows under the header
    call                        \* the handler that ran last, with its inputs (and with what it returned, for a call on the database)

vars == <<annotations, last_line_item_number, marks, stale, store, nextId, nextMark, current_file, last_field_info, last_annotation_group_id, clock, pending, dialogs, prefill, messages, is_selecting, selection_start, selection_rect, csv, call>>

\* the program state a handler works on, threaded through the calls it makes;
\* .highlight tells whether page.add_highlight_annot works or raises
Cur == [ann |-> annotations, lli |-> last_line_item_number, marks |-> marks, stale |-> stale, store |-> store, nextId |-> nextId, nextMark |-> nextMark, lfi |-> last_field_info, lgid |-> last_annotation_group_id, pending |-> pending, dialogs |-> <<>>, prefill |-> <<>>, messages |-> <<>>, is_selecting |-> is_selecting, selection_start |-> selection_start, selection_rect |-> selection_rect, csv |-> csv, highlight |-> TRUE, ok |-> TRUE]

(***************************************************************************)
(* core/pdf_handler.py  PDFDocument                                        *)
(***************************************************************************)
\* PDFDocument.add_highlight_annotation: the mark goes last on the page; None
\* is returned and the page left alone when add_highlight_annot raises
add_highlight_annotation(st, page_num, m) ==
    IF page_num < 0 \/ page_num >= NumPages \/ ~st.highlight THEN st
    ELSE [st EXCEPT !.marks[page_num] = Append(@, m), !.stale = @ \cup {page_num}]

\* the sequence s without its i-th element (1-based)
RemoveAt(s, i) == SubSeq(s, 1, i - 1) \o SubSeq(s, i + 1, Len(s))

\* the mark PDFDocument.remove_annotation deletes: annot_idx (0-based) when it
\* is given and in range, the last mark of the page otherwise
MarkToDelete(n, annot_idx) == IF annot_idx # NoAttr /\ 0 <= annot_idx /\ annot_idx < n THEN annot_idx + 1 ELSE n

\* a remove_annotation that deletes every annotation of the page
remove_annotation_all(st, page_num, annot_idx) ==
    IF page_num < 0 \/ page_num >= NumPages THEN [st EXCEPT !.ok = FALSE]
    ELSE IF Len(st.marks[page_num]) > 0
         THEN [st EXCEPT !.marks[page_num] = <<>>, !.stale = @ \cup {page_num}, !.ok = TRUE]
         ELSE [st EXCEPT !.ok = FALSE]

\* PDFDocument.remove_annotation(page_num, annot_idx=None); .ok is its result
remove_annotation(st, page_num, annot_idx) ==
    IF page_num < 0 \/ page_num >= NumPages THEN [st EXCEPT !.ok = FALSE]
    ELSE IF Len(st.marks[page_num]) > 0
         THEN [st EXCEPT !.marks[page_num] = RemoveAt(@, MarkToDelete(Len(@), annot_idx)), !.stale = @ \cup {page_num}, !.ok = TRUE]
         ELSE [st EXCEPT !.ok = FALSE]

\* PDFViewer.renderPage: the page's bitmap is drawn from its current marks
renderPage(st, page_num) == [st EXCEPT !.stale = @ \ {page_num}]

(***************************************************************************)
(* core/annotation_handler.py  AnnotationHandler                           *)
(***************************************************************************)
\* a clear that also deletes the rows of the table
clear_annotations_and_rows(st) ==
    [st EXCEPT !.ann = <<>>, !.store = {}]

\* AnnotationHandler.clear_annotations
clear_annotations(st) ==
    [st EXCEPT !.ann = <<>>]

\* the dict add_annotation builds (lines 46-74); id 0: no 'id' key yet; mark is
\* the highlight mark created for it (history, not a key of the dict).  A mark
\* a selection creates is known by the number of the add_annotation call, a
\* mark created on loading by the id of its row; the marks of one open
\* document never share a number, as ids never run ahead of the calls
NewAnnotation(page_num, rect, text, field_info, is_multipage, multipage_position, multipage_type, group_id, m) ==
    LET base == [id |-> 0, page |-> page_num, rect |-> rect, text |-> text, type |-> "", field |-> "", line_item_number |-> "", standardized_date |-> Absent, is_multipage |-> is_multipage, multipage_position |-> IF is_multipage THEN multipage_position ELSE 0, multipage_type |-> IF is_multipage THEN multipage_type ELSE "", group_id |-> IF is_multipage THEN group_id ELSE 0, mark |-> m]
        updated == IF field_info # None
                   THEN [base EXCEPT !.type = field_info.type, !.field = field_info.field, !.line_item_number = field_info.line_item_number, !.standardized_date = field_info.standardized_date]
                   ELSE base
        cleaned_text == clean_text_for_date_field(text, field_info.field)
    IN  IF field_info # None /\ field_info.field \in DATE_FIELDS /\ updated.standardized_date = Absent /\ text # <<>>
        THEN [updated EXCEPT !.text = cleaned_text, !.standardized_date = standardize_date(cleaned_text)]
        ELSE updated

\* the number of every classification is remembered, the empty one of a
\* 'meta' classification too
RememberAnyNumber(lli, field_info) ==
    IF field_info # None THEN field_info.line_item_number ELSE lli

\* lines 76-78: remember the last line item number
RememberLineItem(lli, field_info) ==
    IF field_info # None /\ field_info.type = "line_item" /\ field_info.line_item_number # "" THEN field_info.line_item_number ELSE lli

\* an add_annotation that puts the new dict first
add_annotation_first(st, page_num, rect, text, field_info, is_multipage, multipage_position, multipage_type, group_id) ==
    LET m == st.nextMark
        st1 == add_highlight_annotation(st, page_num, m)
        annotation == NewAnnotation(page_num, rect, text, field_info, is_multipage, multipage_position, multipage_type, group_id, m)
    IN  [st1 EXCEPT !.nextMark = @ + 1, !.lli = RememberLineItem(@, field_info), !.ann = <<annotation>> \o @]

\* AnnotationHandler.add_annotation: highlight, build the dict, append it
add_annotation(st, page_num, rect, text, field_info, is_multipage, multipage_position, multipage_type, group_id) ==
    LET m == st.nextMark
        st1 == add_highlight_annotation(st, page_num, m)
        annotation == NewAnnotation(page_num, rect, text, field_info, is_multipage, multipage_position, multipage_type, group_id, m)
    IN  [st1 EXCEPT !.nextMark = @ + 1, !.lli = RememberLineItem(@, field_info), !.ann = Append(@, annotation)]

\* lines 102-110: the 0-based position of entry index (0-based) among the
\* entries of its page
AnnotPosition(ann, index) ==
    Cardinality({i \in 1 .. index : ann[i].page = ann[index + 1].page})

\* a remove_annotation_by_index that takes a negative index as Python's list
\* indexing does, counting from the end
remove_annotation_by_index_wrapping(st, index) ==
    LET at == IF index < 0 THEN Len(st.ann) + index ELSE index
    IN  IF st.ann = <<>> \/ at < 0 \/ at >= Len(st.ann) THEN [st EXCEPT !.ok = FALSE]
        ELSE LET page_num == st.ann[at + 1].page
                 st1 == remove_annotation(st, page_num, AnnotPosition(st.ann, at))
             IN  IF st1.ok THEN [st1 EXCEPT !.ann = RemoveAt(@, at + 1)] ELSE st1

\* AnnotationHandler.remove_annotation_by_index; .ok is its result
remove_annotation_by_index(st, index) ==
    IF st.ann = <<>> \/ index < 0 \/ index >= Len(st.ann) THEN [st EXCEPT !.ok = FALSE]
    ELSE LET page_num == st.ann[index + 1].page
             st1 == remove_annotation(st, page_num, AnnotPosition(st.ann, index))
         IN  IF st1.ok THEN [st1 EXCEPT !.ann = RemoveAt(@, index + 1)] ELSE st1

\* a remove_last_annotation that pops the entry whatever the document says
remove_last_annotation_forced(st) ==
    IF st.ann = <<>> THEN [st EXCEPT !.ok = FALSE]
    ELSE LET st1 == remove_annotation(st, st.ann[Len(st.ann)].page, NoAttr)
         IN  [st1 EXCEPT !.ann = SubSeq(@, 1, Len(@) - 1), !.ok = TRUE]

\* AnnotationHandler.remove_last_annotation; .ok is its result
remove_last_annotation(st) ==
    IF st.ann = <<>> THEN [st EXCEPT !.ok = FALSE]
    ELSE LET st1 == remove_annotation(st, st.ann[Len(st.ann)].page, NoAttr)
         IN  IF st1.ok THEN [st1 EXCEPT !.ann = SubSeq(@, 1, Len(@) - 1)] ELSE st1

(***************************************************************************)
(* database/models.py  AnnotationDB                                        *)
(***************************************************************************)
\* os.path.basename of the paths the model opens
Basename(file_path) == file_path[Len(file_path)]

\* a row written with no standardized date
RowDateNull(annotation) ==
    Absent

\* lines 84-95: the standardized_date column of the row
RowDate(annotation) ==
    IF annotation.field \in DATE_FIELDS /\ annotation.text # <<>>
    THEN IF annotation.standardized_date \notin {Absent, ""} THEN annotation.standardized_date ELSE standardize_date(annotation.text)
    ELSE Absent

\* the row AnnotationDB.add_annotation inserts (lines 104-123)
NewRow(id, file_path, annotation) ==
    [id |-> id, file_name |-> Basename(file_path), page |-> annotation.page, rect_x0 |-> annotation.rect[1], rect_y0 |-> annotation.rect[2], rect_x1 |-> annotation.rect[3], rect_y1 |-> annotation.rect[4], text |-> annotation.text, type |-> annotation.type, field |-> annotation.field, line_item_number |-> annotation.line_item_number, standardized_date |-> RowDate(annotation), is_multipage |-> annotation.is_multipage, multipage_position |-> annotation.multipage_position, multipage_type |-> annotation.multipage_type, group_id |-> annotation.group_id]

\* how a write to the database can go: it succeeds, the statement raises
\* sqlite3.Error, or the statement runs and conn.commit() raises (database
\* locked) and leaves the transaction open
Faults == {"none", "execute", "commit"}

\* an add_annotation on a table whose id is no AUTOINCREMENT column: the new
\* row gets one more than the largest id there is
db_add_annotation_rowid(st, file_path, annotation, fault) ==
    LET ids == {r.id : r \in st.store}
        id == IF ids = {} THEN 1 ELSE 1 + CHOOSE i \in ids : \A j \in ids : j <= i
    IN  IF fault = "none"
        THEN [st EXCEPT !.store = @ \cup {NewRow(id, file_path, annotation)}, !.nextId = @ + 1, !.pending = {}, !.ok = TRUE]
        ELSE [st EXCEPT !.ok = FALSE]

\* AnnotationDB.add_annotation: the new row gets the next AUTOINCREMENT id.
\* The store is the table as the connection reads it.  The id returned (0 for
\* None) is st.nextId before the call when .ok.  When the INSERT raises the
\* table is left alone; when commit raises, the except clause returns None
\* without a rollback and the row stays in the open transaction
db_add_annotation(st, file_path, annotation, fault) ==
    IF fault = "none"
    THEN [st EXCEPT !.store = @ \cup {NewRow(st.nextId, file_path, annotation)}, !.nextId = @ + 1, !.pending = {}, !.ok = TRUE]
    ELSE IF fault = "commit"
    THEN [st EXCEPT !.store = @ \cup {NewRow(st.nextId, file_path, annotation)}, !.nextId = @ + 1, !.pending = @ \cup {st.nextId}, !.ok = FALSE]
    ELSE [st EXCEPT !.ok = FALSE]

\* conn.rollback(): the open transaction is undone, the rows it inserted and
\* the ids it drew from the sequence
Rollback(st) ==
    [st EXCEPT !.store = {r \in @ : r.id \notin st.pending}, !.nextId = @ - Cardinality(st.pending), !.pending = {}]

\* a remove_annotation that deletes without looking for the row first and
\* reports success whenever the write went through
db_remove_annotation_unchecked(st, annotation_id, fault) ==
    IF fault = "none" THEN [st EXCEPT !.store = {r \in @ : r.id # annotation_id}, !.pending = {}, !.ok = TRUE]
    ELSE [Rollback(st) EXCEPT !.ok = FALSE]

\* AnnotationDB.remove_annotation; .ok is its result.  A failed write is
\* rolled back (line 225)
db_remove_annotation(st, annotation_id, fault) ==
    IF ~(\E r \in st.store : r.id = annotation_id) THEN [st EXCEPT !.ok = FALSE]
    ELSE IF fault = "none" THEN [st EXCEPT !.store = {r \in @ : r.id # annotation_id}, !.pending = {}, !.ok = TRUE]
    ELSE [Rollback(st) EXCEPT !.ok = FALSE]

\* ORDER BY id
LoadOrderById(a, b) ==
    a.id < b.id

\* ORDER BY group_id, multipage_position, id
LoadOrderLess(a, b) ==
    \/ a.group_id < b.group_id
    \/ a.group_id = b.group_id /\ a.multipage_position < b.multipage_position
    \/ a.group_id = b.group_id /\ a.multipage_position = b.multipage_position /\ a.id < b.id

\* the rows of S as a sequence in the given order
RECURSIVE SortRows(_)
SortRows(S) ==
    IF S = {} THEN <<>>
    ELSE LET first == CHOOSE r \in S : \A q \in S \ {r} : LoadOrderLess(r, q)
         IN  <<first>> \o SortRows(S \ {first})

\* a query without its WHERE clause
get_annotations_any_file(rows, file_path) ==
    SortRows(rows)

\* AnnotationDB.get_annotations_for_file
get_annotations_for_file(rows, file_path) ==
    SortRows({r \in rows : r.file_name = Basename(file_path)})

\* no file at the path the export writes to
NoFile == [exists |-> FALSE, rows |-> <<>>]

\* the field names of config.py and the empty name, in the order SQLite
\* compares TEXT (NULL first, then byte order)
FieldOrder == <<"", "buyer_name", "currency", "customer_name", "delivery_point", "description", "document_name", "due_date", "full_description", "manufacturer_name", "material_number", "part_number", "quantity", "requested_delivery_date", "rfq_date", "unit_of_measure">>

\* the line item numbers of the model in the order SQLite compares TEXT:
\* "10" sorts before "7"
LineItemOrder == <<"", "10", "7">>

\* position of x in the sequence order
Rank(order, x) == CHOOSE i \in 1..Len(order) : order[i] = x

\* ORDER BY id
ExportOrderById(a, b) ==
    a.id < b.id

\* ORDER BY field_name, line_item_number, group_id, multipage_position, id
\* (line 249)
ExportOrderLess(a, b) ==
    LET ka == <<Rank(FieldOrder, a.field), Rank(LineItemOrder, a.line_item_number), a.group_id, a.multipage_position, a.id>>
        kb == <<Rank(FieldOrder, b.field), Rank(LineItemOrder, b.line_item_number), b.group_id, b.multipage_position, b.id>>
    IN  \E i \in 1..5 : ka[i] < kb[i] /\ \A j \in 1..(i - 1) : ka[j] = kb[j]

\* the rows of S as a sequence in the order of the export query
RECURSIVE ExportSort(_)
ExportSort(S) ==
    IF S = {} THEN <<>>
    ELSE LET first == CHOOSE r \in S : \A q \in S \ {r} : ExportOrderLess(r, q)
         IN  <<first>> \o ExportSort(S \ {first})

\* row_dict of lines 277-294: the page is written 1-based, a NULL date as
\* the empty string, is_multipage as 1 or 0
CsvRow(r) ==
    [id |-> r.id, file_name |-> r.file_name, page |-> r.page + 1, type |-> r.type, field |-> r.field, line_item_number |-> r.line_item_number, rect_x0 |-> r.rect_x0, rect_y0 |-> r.rect_y0, rect_x1 |-> r.rect_x1, rect_y1 |-> r.rect_y1, text |-> r.text, standardized_date |-> IF r.standardized_date = Absent THEN "" ELSE r.standardized_date, is_multipage |-> IF r.is_multipage THEN 1 ELSE 0, multipage_position |-> r.multipage_position, multipage_type |-> r.multipage_type, multipage_group |-> r.group_id]

\* how writing the destination file can go: it succeeds, os.makedirs or
\* open raises, or a writerow raises after some rows were written
ExportFaults == {"none", "open", "write"}

\* an export that writes the header and reports success whatever the query
\* returns
export_annotations_to_csv_always(st, file_path, fault, written) ==
    LET rows == ExportSort({r \in st.store : r.file_name = Basename(file_path)})
    IN  IF fault = "open" THEN [st EXCEPT !.ok = FALSE]
        ELSE IF fault = "write" THEN [st EXCEPT !.csv = [exists |-> TRUE, rows |-> [i \in 1..written |-> CsvRow(rows[i])]], !.ok = FALSE]
        ELSE [st EXCEPT !.csv = [exists |-> TRUE, rows |-> [i \in 1..Len(rows) |-> CsvRow(rows[i])]], !.ok = TRUE]

\* AnnotationDB.export_annotations_to_csv; .ok is its result, .csv the
\* destination file.  written is the number of rows in the file when a
\* writerow raises
export_annotations_to_csv(st, file_path, fault, written) ==
    LET rows == ExportSort({r \in st.store : r.file_name = Basename(file_path)})
    IN  IF rows = <<>> THEN [st EXCEPT !.ok = FALSE]
        ELSE IF fault = "open" THEN [st EXCEPT !.ok = FALSE]
        ELSE IF fault = "write" THEN [st EXCEPT !.csv = [exists |-> TRUE, rows |-> [i \in 1..written |-> CsvRow(rows[i])]], !.ok = FALSE]
        ELSE [st EXCEPT !.csv = [exists |-> TRUE, rows |-> [i \in 1..Len(rows) |-> CsvRow(rows[i])]], !.ok = TRUE]

(***************************************************************************)
(* ui/dialogs.py  AnnotationFieldDialog                                    *)
(***************************************************************************)
\* a getFieldInfo that returns the text of the number input for either type
getFieldInfoWithInput(meta_checked, field, line_item_input) ==
    [type |-> IF meta_checked THEN "meta" ELSE "line_item", field |-> field, line_item_number |-> line_item_input, standardized_date |-> Absent]

\* AnnotationFieldDialog.getFieldInfo: the accepted classification
getFieldInfo(meta_checked, field, line_item_input) ==
    IF meta_checked
    THEN [type |-> "meta", field |-> field, line_item_number |-> "", standardized_date |-> Absent]
    ELSE [type |-> "line_item", field |-> field, line_item_number |-> line_item_input, standardized_date |-> Absent]

\* what the dialog can return: Cancel, or getFieldInfo of what the user chose
\* among the fields updateFieldOptions offers
DialogResults(fields, numbers) ==
    {Cancel} \cup {getFieldInfo(TRUE, f, n) : f \in fields \cap META_FIELDS, n \in numbers}
             \cup {getFieldInfo(FALSE, f, n) : f \in fields \cap LINE_ITEM_FIELDS, n \in numbers}

(***************************************************************************)
(* ui/main_window.py  MainWindow                                           *)
(***************************************************************************)
\* a _process_date_field that marks a date that does not parse with ''
process_date_field_blank(field_info, text) ==
    IF field_info.field \in DATE_FIELDS
    THEN LET std_date == standardize_date(Strip(RemoveBrackets(text)))
         IN  IF std_date # Absent THEN [field_info EXCEPT !.standardized_date = std_date] ELSE [field_info EXCEPT !.standardized_date = ""]
    ELSE field_info

\* MainWindow._process_date_field: the field info with the pre-standardized
\* date of the text, when the field is a date field and the text parses
process_date_field(field_info, text) ==
    IF field_info.field \in DATE_FIELDS
    THEN LET std_date == standardize_date(Strip(RemoveBrackets(text)))
         IN  IF std_date # Absent THEN [field_info EXCEPT !.standardized_date = std_date] ELSE field_info
    ELSE field_info

\* lines 445-448: remove the last mark of every page but the annotation's
RECURSIVE CleanupOtherPages(_, _, _)
CleanupOtherPages(st, page, page_idx) ==
    IF page_idx >= NumPages THEN st
    ELSE CleanupOtherPages(IF page_idx # page THEN remove_annotation(st, page_idx, NoAttr) ELSE st, page, page_idx + 1)

\* a cleanup that also drops the last entry of the Collection
cleanup_annotation_and_entry(st, annotation) ==
    LET st1 == remove_annotation(st, annotation.page, NoAttr)
        st2 == IF annotation.is_multipage /\ annotation.group_id # 0 THEN CleanupOtherPages(st1, annotation.page, 0) ELSE st1
        st3 == IF st2.ann # <<>> THEN [st2 EXCEPT !.ann = SubSeq(@, 1, Len(@) - 1)] ELSE st2
    IN  renderPage(st3, annotation.page)

\* MainWindow._cleanup_annotation
cleanup_annotation(st, annotation) ==
    LET st1 == remove_annotation(st, annotation.page, NoAttr)
        st2 == IF annotation.is_multipage /\ annotation.group_id # 0 THEN CleanupOtherPages(st1, annotation.page, 0) ELSE st1
    IN  renderPage(st2, annotation.page)

\* the dialog shown for every fragment
ShowDialogEveryFragment(annotation) == TRUE

\* line 349: the dialog is shown for single-page annotations and for the
\* first part of a multi-page annotation
ShowDialog(annotation) == ~annotation.is_multipage \/ annotation.multipage_type = "start"

\* lines 358-361: what an accepted dialog stores for the fragments that follow
StoreFieldInfo(st, annotation, field_info) ==
    IF annotation.is_multipage THEN [st EXCEPT !.lfi = field_info, !.lgid = annotation.group_id] ELSE st

\* the stored field info whatever group it was stored for
StoredFieldInfoAnyGroup(st, annotation) ==
    IF st.lfi # None /\ st.lgid # NoAttr THEN st.lfi ELSE None

\* lines 373-377: the field info of a fragment the dialog is not shown for
StoredFieldInfo(st, annotation) ==
    IF st.lfi # None /\ st.lgid # NoAttr /\ annotation.group_id = st.lgid THEN st.lfi ELSE None

\* what goes wrong in a handler when it is not a write to the database: the
\* page renderer raises in add_highlight_annot
HighlightFault == "highlight"

\* how the writes to the database go under a fault of the handler
DbFault(fault) == IF fault \in Faults THEN fault ELSE "none"

\* the annotation is added to the Collection and never written to the
\* database
AddAndStoreTransient(st, annotation, field_info, file, fault) ==
    LET st0 == [st EXCEPT !.highlight = (fault # HighlightFault)]
        st1 == add_annotation(st0, annotation.page, annotation.rect, annotation.text, field_info, annotation.is_multipage, annotation.multipage_position, annotation.multipage_type, annotation.group_id)
    IN  renderPage([st1 EXCEPT !.ok = FALSE], annotation.page)

\* lines 379-408: add the annotation, store it, re-render its page
AddAndStore(st, annotation, field_info, file, fault) ==
    LET st0 == [st EXCEPT !.highlight = (fault # HighlightFault)]
        st1 == add_annotation(st0, annotation.page, annotation.rect, annotation.text, field_info, annotation.is_multipage, annotation.multipage_position, annotation.multipage_type, annotation.group_id)
        st2 == IF file # <<>> THEN db_add_annotation(st1, file, st1.ann[Len(st1.ann)], DbFault(fault)) ELSE [st1 EXCEPT !.ok = FALSE]
        st3 == IF st2.ok /\ st2.ann # <<>> THEN [st2 EXCEPT !.ann[Len(st2.ann)].id = st1.nextId] ELSE st2
    IN  renderPage(st3, annotation.page)

\* MainWindow.onAnnotationAdded; response is what the dialog returns if it is
\* shown; .dialogs records the fragments the dialog was opened on, .prefill
\* the last_line_item_number each dialog was constructed with (line 353)
onAnnotationAdded(st, annotation, response, file, fault) ==
    LET show_dialog == ShowDialog(annotation)
        st0 == IF show_dialog THEN [st EXCEPT !.dialogs = Append(@, IF annotation.is_multipage THEN annotation.multipage_type ELSE "single"), !.prefill = Append(@, st.lli)] ELSE st
    IN  IF show_dialog /\ response = Cancel THEN cleanup_annotation(st0, annotation)
        ELSE LET field_info == IF ~show_dialog THEN StoredFieldInfo(st0, annotation)
                               ELSE IF annotation.is_multipage THEN process_date_field(response, annotation.complete_text)
                               ELSE response
                 st1 == IF show_dialog THEN StoreFieldInfo(st0, annotation, field_info) ELSE st0
             IN  IF field_info # None \/ ~show_dialog
                 THEN AddAndStore(st1, annotation, field_info, file, fault)
                 ELSE cleanup_annotation(st1, annotation)

(***************************************************************************)
(* ui/pdf_viewer.py  PDFViewer                                             *)
(***************************************************************************)
\* fitz.Rect(x0, y0, x1, y1)
Rect(x0, y0, x1, y1) == <<x0, y0, x1, y1>>

\* page.rect of the pages of the documents
PageRect == Rect(0, 0, 6, 8)

\* the transient annotation the viewer emits with annotationAdded
Emitted(page, rect, text, is_multipage, multipage_position, multipage_type, group_id, complete_text) ==
    [page |-> page, rect |-> rect, text |-> text, is_multipage |-> is_multipage, multipage_position |-> multipage_position, multipage_type |-> multipage_type, group_id |-> group_id, complete_text |-> complete_text]

\* getSelectedText lines 303-318: the page texts of the span, each followed by
\* a newline
RECURSIVE CompleteText(_, _, _)
CompleteText(texts, page_idx, end_page_idx) ==
    IF page_idx > end_page_idx THEN <<>>
    ELSE texts[page_idx] \o <<"\n">> \o CompleteText(texts, page_idx + 1, end_page_idx)

\* a getSelectedText that ends the text of every page with a newline, also
\* when the selection is within one page
getSelectedTextLines(rect, texts) ==
    IF rect = <<>> THEN <<>>
    ELSE IF rect[1] < 0 \/ rect[2] < 0 THEN <<>>
    ELSE CompleteText(texts, rect[1], rect[2])

\* PDFViewer.getSelectedText; texts[p] is what get_text_in_rect returns for
\* the part of the selection on page p
getSelectedText(rect, texts) ==
    IF rect = <<>> THEN <<>>
    ELSE IF rect[1] < 0 \/ rect[2] < 0 THEN <<>>
    ELSE IF rect[1] = rect[2] THEN texts[rect[1]]
    ELSE CompleteText(texts, rect[1], rect[2])

\* mouseReleaseEvent lines 454-458: the selection is over
EndSelection(st) == [st EXCEPT !.is_selecting = FALSE, !.selection_rect = <<>>]

\* handleMultiPageSelection lines 526-542: the middle pages, from position on
RECURSIVE MiddlePages(_, _, _, _, _, _, _, _, _)
MiddlePages(st, page_idx, end_page_idx, position, texts, group_id, response, file, fault) ==
    IF page_idx >= end_page_idx THEN st
    ELSE MiddlePages(onAnnotationAdded(st, Emitted(page_idx, PageRect, texts[page_idx], TRUE, position, "middle", group_id, <<>>), response, file, fault),
                     page_idx + 1, end_page_idx, position + 1, texts, group_id, response, file, fault)

\* the span counted without its last page
TotalPagesOpenEnded(start_page_idx, end_page_idx) == end_page_idx - start_page_idx

\* line 505: the number of pages of the span
TotalPages(start_page_idx, end_page_idx) == end_page_idx - start_page_idx + 1

\* a first fragment that covers the page from its top left corner to where
\* the drag starts
FirstPageRectAbove(start_pdf_pos) ==
    Rect(0, 0, start_pdf_pos[1], start_pdf_pos[2])

\* line 509: from where the drag starts to the width and height of the page
FirstPageRect(start_pdf_pos) ==
    Rect(start_pdf_pos[1], start_pdf_pos[2], PageRect[3] - PageRect[1], PageRect[4] - PageRect[2])

\* PDFViewer.handleMultiPageSelection: one annotationAdded per page of the
\* span, each handled before the next is emitted
handleMultiPageSelection(st, start_page_idx, start_pdf_pos, end_page_idx, end_pdf_pos, texts, group_id, response, file, fault) ==
    LET total_pages == TotalPages(start_page_idx, end_page_idx)
        complete_text == CompleteText(texts, start_page_idx, end_page_idx)
        first_page_rect == FirstPageRect(start_pdf_pos)
        last_page_rect == Rect(0, 0, end_pdf_pos[1], end_pdf_pos[2])
        st1 == onAnnotationAdded(st, Emitted(start_page_idx, first_page_rect, texts[start_page_idx], TRUE, 1, "start", group_id, complete_text), response, file, fault)
        st2 == MiddlePages(st1, start_page_idx + 1, end_page_idx, 2, texts, group_id, response, file, fault)
    IN  onAnnotationAdded(st2, Emitted(end_page_idx, last_page_rect, texts[end_page_idx], TRUE, total_pages, "end", group_id, <<>>), response, file, fault)

(***************************************************************************)
(* The handlers as actions.                                                *)
(***************************************************************************)
\* a status bar message: its text and the number put into it (0: none)
Msg(text, n) == [text |-> text, n |-> n]

\* self.statusBar().showMessage(...)
ShowMessage(st, message) == [st EXCEPT !.messages = Append(@, message)]

\* the variables a handler's calls work on, from the state they leave
Commit(st) ==
    /\ annotations' = st.ann
    /\ last_line_item_number' = st.lli
    /\ marks' = st.marks
    /\ stale' = st.stale
    /\ store' = st.store
    /\ nextId' = st.nextId
    /\ nextMark' = st.nextMark
    /\ last_field_info' = st.lfi
    /\ last_annotation_group_id' = st.lgid
    /\ pending' = st.pending
    /\ dialogs' = st.dialogs
    /\ prefill' = st.prefill
    /\ messages' = st.messages
    /\ is_selecting' = st.is_selecting
    /\ selection_start' = st.selection_start
    /\ selection_rect' = st.selection_rect
    /\ csv' = st.csv

Init ==
    /\ annotations = <<>>
    /\ last_line_item_number = ""
    /\ marks = [p \in Pages |-> <<>>]
    /\ stale = {}
    /\ store = {}
    /\ nextId = 1
    /\ nextMark = 1
    /\ current_file = <<>>
    /\ last_field_info = None
    /\ last_annotation_group_id = NoAttr
    /\ clock = 1
    /\ pending = {}
    /\ dialogs = <<>>
    /\ prefill = <<>>
    /\ messages = <<>>
    /\ is_selecting = FALSE
    /\ selection_start = NoPage
    /\ selection_rect = <<>>
    /\ csv = NoFile
    /\ call = <<"init">>

\* loadAnnotationsFromDatabase lines 268-305: highlight, append and re-render
\* for each row, in the order of the query
RECURSIVE LoadRows(_, _)
LoadRows(st, rows) ==
    IF rows = <<>> THEN st
    ELSE LET r == Head(rows)
             m == r.id
             annot == [id |-> r.id, page |-> r.page, rect |-> Rect(r.rect_x0, r.rect_y0, r.rect_x1, r.rect_y1), text |-> r.text, type |-> r.type, field |-> r.field, line_item_number |-> r.line_item_number, standardized_date |-> r.standardized_date, is_multipage |-> r.is_multipage, multipage_position |-> IF r.is_multipage THEN r.multipage_position ELSE 0, multipage_type |-> IF r.is_multipage THEN r.multipage_type ELSE "", group_id |-> IF r.is_multipage THEN r.group_id ELSE 0, mark |-> m]
             st1 == add_highlight_annotation(st, r.page, m)
             st2 == [st1 EXCEPT !.ann = Append(@, annot)]
         IN  LoadRows(renderPage(st2, r.page), Tail(rows))

\* the documents that come with an annotation of their own (a comment or a
\* highlight made with another program) on their first page
AnnotatedFiles == {<<"docs", "notes.pdf">>}

\* page.annots() of the pages of a document as fitz.open reads it; 0 is the
\* annotation the document came with
ExistingMarks(file_path) == [p \in Pages |-> IF file_path \in AnnotatedFiles /\ p = 0 THEN <<0>> ELSE <<>>]

\* MainWindow.loadPDF of a file that opens: the document is read afresh
\* (every page rendered), the Collection is cleared and filled from the Store
loadPDF(file_path) ==
    LET opened == clear_annotations([Cur EXCEPT !.marks = ExistingMarks(file_path), !.stale = {}, !.messages = <<Msg("Loading", 0), Msg("Loaded", 0)>>])
        db_annotations == get_annotations_for_file(store, file_path)
        shown == IF db_annotations # <<>> THEN Msg("Loaded annotations from database", Len(db_annotations)) ELSE Msg("No annotations found", 0)
    IN  /\ \E st \in {ShowMessage(LoadRows(opened, db_annotations), shown)} : Commit(st)
        /\ current_file' = file_path
        /\ clock' = clock
        /\ call' = <<"loadPDF">>

\* PDFViewer.mouseReleaseEvent lines 437-449 with MainWindow.onAnnotationAdded:
\* a selection within one page
SelectSingle(page, start_pdf_pos, end_pdf_pos, text, response, fault) ==
    /\ current_file # <<>>
    /\ text # <<>>
    /\ nextMark <= MaxAdd
    /\ call' = <<"SelectSingle", page, response, text, fault>>
    /\ \E st \in {EndSelection(onAnnotationAdded(Cur, Emitted(page, Rect(start_pdf_pos[1], start_pdf_pos[2], end_pdf_pos[1], end_pdf_pos[2]), text, FALSE, 0, "", 0, <<>>), response, current_file, fault))} : Commit(st)
    /\ UNCHANGED <<current_file, clock>>

\* a group id of the time in seconds
MintGroupIdSeconds(now) == now \div 2

\* line 502: the group id, str(int(time.time() * 1000)), of the time now
MintGroupId(now) == now

\* PDFViewer.mouseReleaseEvent line 452 with handleMultiPageSelection: a
\* selection from start_page_idx to a later page; the group id is the time
\* in milliseconds, and the modal dialog takes time
SelectMulti(start_page_idx, start_pdf_pos, end_page_idx, end_pdf_pos, texts, response, fault) ==
    /\ current_file # <<>>
    /\ start_page_idx < end_page_idx
    /\ nextMark + (end_page_idx - start_page_idx) <= MaxAdd
    /\ call' = <<"SelectMulti", start_page_idx, end_page_idx, response, texts, start_pdf_pos, end_pdf_pos, fault>>
    /\ \E st \in {EndSelection(handleMultiPageSelection(Cur, start_page_idx, start_pdf_pos, end_page_idx, end_pdf_pos, texts, MintGroupId(clock), response, current_file, fault))} : Commit(st)
    /\ clock' = clock + 1
    /\ UNCHANGED current_file

\* PDFViewer.mousePressEvent of the left button on page (or on no page), with
\* or without Ctrl: Ctrl starts a selection, without it the view is panned
mousePressEvent(page, ctrl) ==
    /\ current_file # <<>>
    /\ call' = <<"mousePressEvent", page, ctrl>>
    /\ \E st \in {IF ctrl THEN [Cur EXCEPT !.is_selecting = TRUE, !.selection_start = page, !.selection_rect = <<page, page>>] ELSE Cur} : Commit(st)
    /\ UNCHANGED <<current_file, clock>>

\* PDFViewer.mouseMoveEvent to a point on page (or on no page): while
\* selecting the rectangle is spanned between the start and that point
mouseMoveEvent(page) ==
    /\ call' = <<"mouseMoveEvent", page>>
    /\ \E st \in {IF is_selecting /\ selection_rect # <<>>
                   THEN [Cur EXCEPT !.selection_rect = <<IF selection_start < page THEN selection_start ELSE page, IF selection_start < page THEN page ELSE selection_start>>]
                   ELSE Cur} : Commit(st)
    /\ UNCHANGED <<current_file, clock>>

\* PDFViewer.mouseReleaseEvent of the left button while is_selecting, with
\* MainWindow.onAnnotationAdded for what it emits; when no text is selected
\* the event goes to the base class (lines 460-462)
mouseReleaseEvent(start_pdf_pos, end_pdf_pos, texts, response, fault) ==
    /\ is_selecting
    /\ LET start_page_idx == selection_rect[1]
           end_page_idx == selection_rect[2]
           selected_text == getSelectedText(selection_rect, texts)
       IN  /\ start_page_idx >= 0 /\ end_page_idx >= 0 => nextMark + (end_page_idx - start_page_idx) <= MaxMouseAdd
           /\ call' = <<"mouseReleaseEvent", start_page_idx, end_page_idx, response, texts, fault>>
           /\ IF selected_text = <<>> THEN Commit(Cur) /\ clock' = clock
              ELSE IF start_page_idx = end_page_idx
              THEN /\ \E st \in {EndSelection(onAnnotationAdded(Cur, Emitted(start_page_idx, Rect(start_pdf_pos[1], start_pdf_pos[2], end_pdf_pos[1], end_pdf_pos[2]), selected_text, FALSE, 0, "", 0, <<>>), response, current_file, fault))} : Commit(st)
                   /\ clock' = clock
              ELSE /\ \E st \in {EndSelection(handleMultiPageSelection(Cur, start_page_idx, start_pdf_pos, end_page_idx, end_pdf_pos, texts, MintGroupId(clock), response, current_file, fault))} : Commit(st)
                   /\ clock' = clock + 1
    /\ UNCHANGED current_file

\* ui/data_panel.py updateAnnotationsList: the entries that get a delete
\* button (0-based indices)
Deletable(ann) == {i \in 0 .. (Len(ann) - 1) : ann[i + 1].type \in {"meta", "line_item"}}

\* MainWindow.onDeleteAnnotation for the index of a button of the list (a row
\* number, never negative)
onDeleteAnnotation(index, fault) ==
    /\ index >= 0
    /\ call' = <<"onDeleteAnnotation", index, fault>>
    /\ IF annotations = <<>> \/ index >= Len(annotations)
       THEN \E st \in {ShowMessage(Cur, Msg("Invalid annotation index", index))} : Commit(st)
       ELSE
       LET annotation == annotations[index + 1]
           st1 == remove_annotation_by_index(Cur, index)
           st2 == IF st1.ok /\ annotation.id # 0 THEN db_remove_annotation(st1, annotation.id, fault) ELSE st1
           shown == IF ~st1.ok THEN Msg("Failed to remove annotation", index)
                    ELSE IF annotation.id = 0 THEN Msg("Annotation deleted (no database ID)", index)
                    ELSE IF st2.ok THEN Msg("Annotation deleted", index)
                    ELSE Msg("Warning: Annotation removed from PDF but failed to delete from database", 0)
           st3 == ShowMessage(IF st1.ok THEN renderPage(st2, annotation.page) ELSE st2, shown)
       IN  \E st \in {st3} : Commit(st)
    /\ UNCHANGED <<current_file, clock>>

\* MainWindow.undoLastAnnotation
undoLastAnnotation(fault) ==
    /\ call' = <<"undoLastAnnotation", fault>>
    /\ IF annotations = <<>>
       THEN \E st \in {ShowMessage(Cur, Msg("No annotations to undo", 0))} : Commit(st)
       ELSE
       LET last_annot == annotations[Len(annotations)]
           st1 == remove_last_annotation(Cur)
           st2 == IF st1.ok /\ last_annot.id # 0 THEN db_remove_annotation(st1, last_annot.id, fault) ELSE st1
           shown == IF st1.ok THEN Msg("Last annotation removed", 0) ELSE Msg("Failed to remove annotation", 0)
           st3 == ShowMessage(IF st1.ok THEN renderPage(st2, last_annot.page) ELSE st2, shown)
       IN  \E st \in {st3} : Commit(st)
    /\ UNCHANGED <<current_file, clock>>

\* MainWindow.exportAnnotationsToCSV lines 524-550, from the state st, with a
\* path chosen in the save dialog: one message box tells how it went
ExportAndReport(st, file_path, fault, written) ==
    IF file_path = <<>> THEN [ShowMessage(st, Msg("No PDF file is currently loaded", 0)) EXCEPT !.ok = FALSE]
    ELSE LET st1 == export_annotations_to_csv(st, file_path, fault, written)
         IN  IF st1.ok THEN ShowMessage(st1, Msg("Export Successful", 0))
             ELSE ShowMessage(st1, Msg("Export Failed", 0))

\* MainWindow.exportAnnotationsToCSV
exportAnnotationsToCSV(fault, written) ==
    /\ \E st \in {ExportAndReport(Cur, current_file, fault, written)} :
           /\ Commit(st)
           /\ call' = <<"exportAnnotationsToCSV", current_file # <<>>, st.ok, fault>>
    /\ UNCHANGED <<current_file, clock>>

(***************************************************************************)
(* Specification: the handlers with a Store whose writes succeed.          *)
(***************************************************************************)
CoreFiles == {<<"docs", "a.pdf">>}

CoreTexts == {<<"abc">>}

\* where the drag starts and ends, in PDF coordinates of its page
CoreStartPos == <<1, 2>>

CoreEndPos == <<3, 4>>

SingleResponses == DialogResults({"quantity"}, {"7"})

MultiResponses == DialogResults({"document_name", "quantity"}, {"7"})

\* single-page selections are made on the first page, multi-page selections
\* over every span of pages
SinglePages == {0}

\* every page of the span reads the same text
CoreTextsOf(t) == [p \in Pages |-> t]

Open == \E f \in CoreFiles : loadPDF(f)

Single == \E p \in SinglePages, t \in CoreTexts, r \in SingleResponses : SelectSingle(p, CoreStartPos, CoreEndPos, t, r, "none")

Multi == \E sp \in Pages, ep \in Pages, t \in CoreTexts, r \in MultiResponses : SelectMulti(sp, CoreStartPos, ep, CoreEndPos, CoreTextsOf(t), r, "none")

Delete == \E i \in Deletable(annotations) : onDeleteAnnotation(i, "none")

Undo == undoLastAnnotation("none")

Next == Open \/ Single \/ Multi \/ Delete \/ Undo

Spec == Init /\ [][Next]_vars

(***************************************************************************)
(* Specification: the handlers with a database whose writes can fail.      *)
(***************************************************************************)
FaultSingle ==
    /\ nextMark <= MaxFaultAdd
    /\ \E p \in SinglePages, t \in CoreTexts, r \in SingleResponses, f \in Faults : SelectSingle(p, CoreStartPos, CoreEndPos, t, r, f)

FaultMulti ==
    \E ep \in Pages, t \in CoreTexts, r \in SingleResponses, f \in Faults :
        /\ nextMark + ep <= MaxFaultAdd
        /\ SelectMulti(0, CoreStartPos, ep, CoreEndPos, CoreTextsOf(t), r, f)

FaultDelete == \E i \in Deletable(annotations), f \in Faults : onDeleteAnnotation(i, f)

FaultUndo == \E f \in Faults : undoLastAnnotation(f)

FaultNext == Open \/ FaultSingle \/ FaultMulti \/ FaultDelete \/ FaultUndo

FaultSpec == Init /\ [][FaultNext]_vars

(***************************************************************************)
(* Specification: several documents, with a database whose writes succeed. *)
(***************************************************************************)
\* two documents of one base name in different directories, and a third
Files == {<<"docs", "a.pdf">>, <<"archive", "a.pdf">>, <<"docs", "b.pdf">>}

FileOpen == \E f \in Files : loadPDF(f)

FileSingle ==
    /\ nextMark <= MaxFileAdd
    /\ \E p \in SinglePages, t \in CoreTexts, r \in SingleResponses : SelectSingle(p, CoreStartPos, CoreEndPos, t, r, "none")

FileMulti ==
    \E ep \in Pages, t \in CoreTexts, r \in SingleResponses :
        /\ nextMark + ep <= MaxFileAdd
        /\ SelectMulti(0, CoreStartPos, ep, CoreEndPos, CoreTextsOf(t), r, "none")

FileNext == FileOpen \/ FileSingle \/ FileMulti \/ Delete \/ Undo

FileSpec == Init /\ [][FileNext]_vars

(***************************************************************************)
(* Specification: single-page annotations of date fields and other fields, *)
(* on texts that are dates and texts that are not.                         *)
(***************************************************************************)
\* a text that is no date, a date, a date in brackets with a newline, and
\* "[ 2024/03/07 ]"
DateTexts == {<<"abc">>, <<"2024/03/07">>, <<"[", "2024/03/07", "]", "\n">>, <<"[", " ", "2024/03/07", " ", "]">>}

DateResponses == DialogResults({"rfq_date", "document_name", "quantity"}, {"7"})

DateSingle ==
    /\ nextMark <= MaxDateAdd
    /\ \E p \in SinglePages, t \in DateTexts, r \in DateResponses : SelectSingle(p, CoreStartPos, CoreEndPos, t, r, "none")

\* what one page of a span can read: nothing, a text that is no date, a date
SpanTexts == {<<>>, <<"abc">>, <<"2024/03/07">>}

\* a span from page 0 that reads t0 on its first page and t1 on the others
DateMulti ==
    \E ep \in Pages, t0 \in SpanTexts, t1 \in SpanTexts, r \in DateResponses :
        /\ nextMark + ep <= MaxDateAdd
        /\ SelectMulti(0, CoreStartPos, ep, CoreEndPos, [p \in Pages |-> IF p = 0 THEN t0 ELSE t1], r, "none")

DateNext == Open \/ DateSingle \/ DateMulti \/ Delete \/ Undo

DateSpec == Init /\ [][DateNext]_vars

(***************************************************************************)
(* Specification: a document that comes with an annotation of its own.     *)
(***************************************************************************)
AnnotatedOpen == \E f \in AnnotatedFiles : loadPDF(f)

AnnotatedSingle ==
    /\ nextMark <= MaxAnnotatedAdd
    /\ \E p \in SinglePages, t \in CoreTexts, r \in SingleResponses : SelectSingle(p, CoreStartPos, CoreEndPos, t, r, "none")

AnnotatedMulti ==
    \E ep \in Pages, t \in CoreTexts, r \in SingleResponses :
        /\ nextMark + ep <= MaxAnnotatedAdd
        /\ SelectMulti(0, CoreStartPos, ep, CoreEndPos, CoreTextsOf(t), r, "none")

AnnotatedNext == AnnotatedOpen \/ AnnotatedSingle \/ AnnotatedMulti \/ Delete \/ Undo

AnnotatedSpec == Init /\ [][AnnotatedNext]_vars

(***************************************************************************)
(* Specification: the database alone, called as MainWindow calls it and    *)
(* with ids it does not hold, with writes that succeed and writes that fail.*)
(***************************************************************************)
\* the dicts handed to add_annotation: a classified selection on either of
\* two pages
StoreAnnotations == {NewAnnotation(p, Rect(CoreStartPos[1], CoreStartPos[2], CoreEndPos[1], CoreEndPos[2]), <<"abc">>, getFieldInfo(FALSE, "quantity", "7"), FALSE, 0, "", 0, 0) : p \in {0, 1}}

\* AnnotationDB.add_annotation(file_path, annotation); the call records the
\* id returned, 0 for None
StoreAdd ==
    /\ nextId <= MaxStoreAdd
    /\ \E f \in CoreFiles, a \in StoreAnnotations, fault \in Faults :
          \E st \in {db_add_annotation(Cur, f, a, fault)} :
              /\ Commit(st)
              /\ call' = <<"add_annotation", a.page, IF st.ok THEN nextId ELSE 0, fault>>
    /\ UNCHANGED <<current_file, clock>>

\* AnnotationDB.remove_annotation(annotation_id); the call records the result
StoreRemove ==
    /\ \E annotation_id \in 1 .. MaxStoreAdd, fault \in Faults :
          \E st \in {db_remove_annotation(Cur, annotation_id, fault)} :
              /\ Commit(st)
              /\ call' = <<"remove_annotation", annotation_id, st.ok, fault>>
    /\ UNCHANGED <<current_file, clock>>

StoreNext == StoreAdd \/ StoreRemove

StoreSpec == Init /\ [][StoreNext]_vars

(***************************************************************************)
(* Specification: removals with indices in and out of range, on            *)
(* Collections that hold entries and on the empty Collection; the handler  *)
(* is called by the window and directly.                                   *)
(***************************************************************************)
EdgePages == {0, 1}

EdgeSingle ==
    /\ nextMark <= MaxEdgeAdd
    /\ \E p \in EdgePages, t \in CoreTexts, r \in SingleResponses : SelectSingle(p, CoreStartPos, CoreEndPos, t, r, "none")

\* AnnotationHandler.remove_annotation_by_index(index) called directly; the
\* call records the result
EdgeRemoveAt ==
    /\ \E index \in (0 - 2) .. (MaxEdgeAdd + 1) :
          \E st \in {remove_annotation_by_index(Cur, index)} :
              /\ Commit(st)
              /\ call' = <<"remove_annotation_by_index", index, st.ok, "none">>
    /\ UNCHANGED <<current_file, clock>>

\* AnnotationHandler.remove_last_annotation() called directly
EdgeRemoveLast ==
    /\ \E st \in {remove_last_annotation(Cur)} :
          /\ Commit(st)
          /\ call' = <<"remove_last_annotation", st.ok, "none">>
    /\ UNCHANGED <<current_file, clock>>

\* the delete button of a row, also of a row that is no longer there
EdgeDelete == \E i \in 0 .. (MaxEdgeAdd + 1) : onDeleteAnnotation(i, "none")

EdgeNext == Open \/ EdgeSingle \/ EdgeRemoveAt \/ EdgeRemoveLast \/ EdgeDelete \/ Undo

EdgeSpec == Init /\ [][EdgeNext]_vars

(***************************************************************************)
(* Specification: selections on pages where the highlight can be made and  *)
(* where making it fails.                                                  *)
(***************************************************************************)
HighlightSingle ==
    /\ nextMark <= MaxHighlightAdd
    /\ \E p \in EdgePages, t \in CoreTexts, r \in SingleResponses, f \in {"none", HighlightFault} : SelectSingle(p, CoreStartPos, CoreEndPos, t, r, f)

HighlightMulti ==
    \E ep \in Pages, t \in CoreTexts, r \in SingleResponses, f \in {"none", HighlightFault} :
        /\ nextMark + ep <= MaxHighlightAdd
        /\ SelectMulti(0, CoreStartPos, ep, CoreEndPos, CoreTextsOf(t), r, f)

HighlightNext == Open \/ HighlightSingle \/ HighlightMulti \/ Delete \/ Undo

HighlightSpec == Init /\ [][HighlightNext]_vars

(***************************************************************************)
(* Specification: exports of the open file, with and without rows in the   *)
(* Store, with writes of the destination file that succeed and that fail.  *)
(***************************************************************************)
ExportFiles == {<<"docs", "a.pdf">>, <<"docs", "b.pdf">>}

\* the classifications the dialog is accepted with
ExportResponses == DialogResults({"document_name", "quantity"}, {"7", "10"}) \ {Cancel}

ExportOpen == \E f \in ExportFiles : loadPDF(f)

ExportSingle ==
    /\ nextMark <= MaxExportAdd
    /\ \E p \in EdgePages, t \in CoreTexts, r \in ExportResponses : SelectSingle(p, CoreStartPos, CoreEndPos, t, r, "none")

ExportMulti ==
    \E ep \in Pages, t \in CoreTexts, r \in ExportResponses :
        /\ nextMark + ep <= MaxExportAdd
        /\ SelectMulti(0, CoreStartPos, ep, CoreEndPos, CoreTextsOf(t), r, "none")

\* the rows the export query returns for the open file
ExportRows == {r \in store : current_file # <<>> /\ r.file_name = Basename(current_file)}

Export ==
    \E fault \in ExportFaults, written \in 0..MaxExportAdd :
        /\ IF fault = "write" THEN written < Cardinality(ExportRows) ELSE written = 0
        /\ exportAnnotationsToCSV(fault, written)

ExportNext == ExportOpen \/ ExportSingle \/ ExportMulti \/ Delete \/ Undo \/ Export

ExportSpec == Init /\ [][ExportNext]_vars

(***************************************************************************)
(* Specification: classifications with and without a line item number, in  *)
(* two documents.                                                          *)
(***************************************************************************)
\* what the dialog can return when the number input holds nothing, 7 or 10
RememberResponses == DialogResults({"document_name", "quantity"}, {"", "7", "10"})

RememberSingle ==
    /\ nextMark <= MaxRememberAdd
    /\ \E p \in SinglePages, t \in CoreTexts, r \in RememberResponses : SelectSingle(p, CoreStartPos, CoreEndPos, t, r, "none")

RememberMulti ==
    \E ep \in Pages, t \in CoreTexts, r \in RememberResponses :
        /\ nextMark + ep <= MaxRememberAdd
        /\ SelectMulti(0, CoreStartPos, ep, CoreEndPos, CoreTextsOf(t), r, "none")

RememberNext == ExportOpen \/ RememberSingle \/ RememberMulti \/ Delete \/ Undo

RememberSpec == Init /\ [][RememberNext]_vars

(***************************************************************************)
(* Specification: multi-page selections that start and end at several      *)
(* points, over pages that read different texts.                           *)
(***************************************************************************)
\* where a drag can start and where it can end, in PDF coordinates
RectStarts == {<<1, 2>>, <<5, 7>>}

RectEnds == {<<3, 4>>, <<2, 1>>}

\* what get_text_in_rect returns for the fragment of each page
RectTexts == {[p \in Pages |-> <<"abc">>], [p \in Pages |-> IF p = 0 THEN <<"abc">> ELSE IF p = 1 THEN <<"def">> ELSE <<"ghi">>]}

RectMulti ==
    \E sp \in Pages, ep \in Pages, start_pdf_pos \in RectStarts, end_pdf_pos \in RectEnds, texts \in RectTexts, r \in SingleResponses :
        /\ nextMark + (ep - sp) <= MaxRectAdd
        /\ SelectMulti(sp, start_pdf_pos, ep, end_pdf_pos, texts, r, "none")

RectNext == Open \/ RectMulti \/ Delete \/ Undo

RectSpec == Init /\ [][RectNext]_vars

(***************************************************************************)
(* Specification: the mouse events of the viewer one by one: presses with  *)
(* and without Ctrl, moves and releases, on pages with and without text    *)
(* and beside the pages.                                                   *)
(***************************************************************************)
\* where the mouse can be: on one of the first two pages or on no page
MousePages == {NoPage, 0, 1}

\* every page reads nothing, or every page reads abc
MouseTexts == {CoreTextsOf(<<>>), CoreTextsOf(<<"abc">>)}

\* a document is opened while no selection rectangle is on the scene
\* (loadDocument clears the scene)
MouseOpen == selection_rect = <<>> /\ Open

MousePress == \E p \in MousePages, ctrl \in BOOLEAN : mousePressEvent(p, ctrl)

MouseMove == \E p \in MousePages : mouseMoveEvent(p)

MouseRelease == \E texts \in MouseTexts, r \in SingleResponses : mouseReleaseEvent(CoreStartPos, CoreEndPos, texts, r, "none")

MouseNext == MouseOpen \/ MousePress \/ MouseMove \/ MouseRelease \/ Undo

MouseSpec == Init /\ [][MouseNext]_vars

(***************************************************************************)
(* Properties.                                                             *)
(***************************************************************************)
\* the Collection entries of group g, as indices
GroupIdx(ann, g) == {i \in 1 .. Len(ann) : ann[i].group_id = g}

\* the groups of the Collection
Groups(ann) == {ann[i].group_id : i \in 1 .. Len(ann)} \ {0}

\* the marks that stand on page p for the entries of the Collection, in
\* Collection order
RECURSIVE EntryMarks(_, _)
EntryMarks(ann, p) ==
    IF ann = <<>> THEN <<>>
    ELSE (IF Head(ann).page = p THEN <<Head(ann).mark>> ELSE <<>>) \o EntryMarks(Tail(ann), p)

\* the marks of page p as a set
MarkSet(m, p) == {m[p][j] : j \in 1 .. Len(m[p])}

\* the ids get_annotations_for_file returns
LoadedIds(rows, file_path) ==
    LET loaded == get_annotations_for_file(rows, file_path)
    IN  {loaded[k].id : k \in 1 .. Len(loaded)}

\* the handler that ran last is a multi-page selection / a single-page one
IsMulti(c) == c[1] = "SelectMulti"

IsSingle(c) == c[1] = "SelectSingle"

\* C1: if the classification dialog is cancelled for a multi-page selection,
\* then once the selection has been processed neither the Collection nor the
\* Store holds a record of the selection's group id, and no mark created for
\* the selection is left on any page.
C1_CancelLeavesNoResidue ==
    [][(IsMulti(call') /\ call'[4] = Cancel) =>
          /\ GroupIdx(annotations', clock) = {}
          /\ \A r \in store' : r.group_id # clock
          /\ \A p \in Pages : \A m \in MarkSet(marks', p) : m < nextMark]_vars

\* the fragments of group g are one 'start' at position 1, one 'end' at the
\* position that is the number of fragments, and 'middle' fragments between,
\* with strictly increasing positions
WellFormedGroup(ann, g) ==
    LET idx == GroupIdx(ann, g)
    IN  /\ Cardinality({i \in idx : ann[i].multipage_type = "start"}) = 1
        /\ Cardinality({i \in idx : ann[i].multipage_type = "end"}) = 1
        /\ \A i \in idx : ann[i].multipage_type = "start" => ann[i].multipage_position = 1
        /\ \A i \in idx : ann[i].multipage_type = "end" => ann[i].multipage_position = Cardinality(idx)
        /\ \A i \in idx : ann[i].multipage_type \in {"start", "middle", "end"}
        /\ \A i \in idx, j \in idx : i < j => ann[i].multipage_position < ann[j].multipage_position

\* C2: in every reachable state every group of the Collection has exactly one
\* 'start' fragment at position 1, exactly one 'end' fragment at the position
\* equal to the number of its fragments, and only 'middle' fragments with
\* strictly increasing positions otherwise.
C2_GroupsWellFormed == \A g \in Groups(annotations) : WellFormedGroup(annotations, g)

\* C3: in every reachable state the marks of every page are exactly the marks
\* created for the Collection entries of that page, in Collection order.
C3_MarksMatchCollection == \A p \in Pages : marks[p] = EntryMarks(annotations, p)

\* C4: after a delete by index succeeds for an annotation with a durable id,
\* get_annotations_for_file for the current file no longer returns that id and
\* the mark created for the annotation is no longer on its page.
C4_DeleteConsistent ==
    [][(call'[1] = "onDeleteAnnotation" /\ Len(annotations') < Len(annotations) /\ annotations[call'[2] + 1].id # 0) =>
          LET deleted == annotations[call'[2] + 1]
          IN  /\ deleted.id \notin LoadedIds(store', current_file)
              /\ deleted.mark \notin MarkSet(marks', deleted.page)]_vars

\* 'start' for the first, 'end' for the last, 'middle' for the fragments between
FragmentType(j, k) == IF j = 0 THEN "start" ELSE IF j = k THEN "end" ELSE "middle"

\* C5: an accepted multi-page selection over pages p..p+k adds exactly k+1
\* records to the Collection and to the Store, one per page in page order:
\* 'start' at position 1 on p, 'end' at position k+1 on p+k, 'middle' at
\* positions 2..k between, all multi-page and all of the one group id.
C5_AcceptedMultiAddsFragments ==
    [][(IsMulti(call') /\ call'[4] # Cancel) =>
          LET sp == call'[2]
              k == call'[3] - call'[2]
              n == Len(annotations)
          IN  /\ Len(annotations') = n + k + 1
              /\ SubSeq(annotations', 1, n) = annotations
              /\ store \subseteq store'
              /\ Cardinality(store' \ store) = k + 1
              /\ \A j \in 0 .. k :
                    LET e == annotations'[n + 1 + j]
                    IN  /\ e.page = sp + j
                        /\ e.is_multipage
                        /\ e.group_id = clock
                        /\ e.multipage_position = j + 1
                        /\ e.multipage_type = FragmentType(j, k)
                        /\ \E row \in store' \ store :
                              /\ row.id = e.id
                              /\ row.page = sp + j
                              /\ row.is_multipage
                              /\ row.group_id = clock
                              /\ row.multipage_position = j + 1
                              /\ row.multipage_type = FragmentType(j, k)]_vars

\* reached: a selection over pages 0..2 was accepted and the Collection ends
\* with its start, middle and end fragment
C5_Witness ==
    /\ IsMulti(call) /\ call[2] = 0 /\ call[3] = 2 /\ call[4] # Cancel
    /\ Len(annotations) >= 3
    /\ annotations[Len(annotations) - 2].multipage_type = "start"
    /\ annotations[Len(annotations) - 1].multipage_type = "middle"
    /\ annotations[Len(annotations)].multipage_type = "end"

\* the classification of a record
Classification(x) == <<x.type, x.field, x.line_item_number>>

\* the records of one group agree on their classification
SameClassification ==
    /\ \A i \in 1 .. Len(annotations), j \in 1 .. Len(annotations) :
          (annotations[i].group_id # 0 /\ annotations[i].group_id = annotations[j].group_id) => Classification(annotations[i]) = Classification(annotations[j])
    /\ \A x \in store, y \in store :
          (x.group_id # 0 /\ x.group_id = y.group_id) => Classification(x) = Classification(y)
    /\ \A i \in 1 .. Len(annotations) : \A x \in store :
          (x.group_id # 0 /\ x.group_id = annotations[i].group_id) => Classification(x) = Classification(annotations[i])

\* C6: in every reachable state the records of the Collection and of the Store
\* that share a group id carry the same field, type and line item number; and
\* a fragment a selection adds carries the classification chosen for that
\* selection (none when its dialog was cancelled), never an earlier one.
C6_GroupClassification ==
    [][/\ SameClassification'
       /\ (IsMulti(call') =>
             \A i \in (Len(annotations) + 1) .. Len(annotations') :
                 Classification(annotations'[i]) = IF call'[4] = Cancel THEN <<"", "", "">> ELSE Classification(call'[4]))]_vars

\* reached: a multi-page selection added a fragment while the Collection
\* holds a fragment of an earlier group that is classified otherwise
C6_Witness ==
    /\ IsMulti(call)
    /\ \E i \in 1 .. Len(annotations), j \in 1 .. Len(annotations) :
          /\ annotations[i].group_id # 0
          /\ annotations[i].type # ""
          /\ annotations[j].group_id > annotations[i].group_id
          /\ annotations[j].id = nextId - 1
          /\ Classification(annotations[j]) # Classification(annotations[i])

\* C7: every annotation in the Collection or the Store has been classified:
\* its type is 'meta' or 'line_item' and its field is not empty.
C7_AllClassified ==
    /\ \A i \in 1 .. Len(annotations) : annotations[i].type \in {"meta", "line_item"} /\ annotations[i].field # ""
    /\ \A r \in store : r.type \in {"meta", "line_item"} /\ r.field # ""

\* C8: cancelling the dialog of a single-page selection leaves the Collection
\* and the Store as they were.
C8_CancelSingleFrame ==
    [][(IsSingle(call') /\ call'[3] = Cancel) => (annotations' = annotations /\ store' = store)]_vars

\* reached: the dialog of a single-page selection was cancelled while the
\* Collection and the Store hold records
C8_Witness ==
    /\ IsSingle(call) /\ call[3] = Cancel
    /\ annotations # <<>>
    /\ store # {}

\* C9: the dialog is opened exactly once for each selection: once for a
\* single-page selection, and for a multi-page selection once, on the 'start'
\* fragment.
C9_DialogOnce ==
    /\ (IsSingle(call) => dialogs = <<"single">>)
    /\ (IsMulti(call) => dialogs = <<"start">>)

\* reached: a selection over three pages was accepted, with the dialog opened
\* on its 'start' fragment
C9_Witness ==
    /\ IsMulti(call) /\ call[3] - call[2] = 2 /\ call[4] # Cancel
    /\ dialogs = <<"start">>
    /\ Len(annotations) >= 3
    /\ annotations[Len(annotations)].multipage_type = "end"

\* C10: after every handler every page whose marks changed has been rendered
\* since: no page shows a stale bitmap.
C10_NoStalePage == stale = {}

\* the handler that ran last is a delete by index / an undo
IsDelete(c) == c[1] = "onDeleteAnnotation"

IsUndo(c) == c[1] = "undoLastAnnotation"

\* how the database writes of the handler that ran last went
FaultOf(c) == c[Len(c)]

\* the Collection entry a delete by index or an undo is about
Target(c, ann) == IF IsDelete(c) THEN ann[c[2] + 1] ELSE ann[Len(ann)]

\* the text of the message the status bar shows in the end
LastText(m) == IF m = <<>> THEN "" ELSE m[Len(m)].text

\* what the status bar shows after a delete by index or an undo when the mark,
\* the entry and the row are gone, and when nothing was removed
DeleteSuccessTexts == {"Annotation deleted", "Annotation deleted (no database ID)", "Last annotation removed"}

DeleteFailureTexts == {"Failed to remove annotation"}

\* C11: whenever a delete by index or an undo removes the mark and the
\* Collection entry but the delete of the row fails, the status bar shows
\* neither what it shows after a fully successful delete nor what it shows
\* after a fully failed one.
C11_PartialDeleteFlagged ==
    [][((IsDelete(call') \/ IsUndo(call')) /\ Len(annotations') < Len(annotations) /\ Target(call', annotations).id # 0 /\ FaultOf(call') # "none") =>
          LastText(messages') \notin (DeleteSuccessTexts \cup DeleteFailureTexts)]_vars

\* C12: from every state with a non-empty Collection, remove_last_annotation
\* and remove_annotation_by_index of the last index return the same result and
\* leave the same Collection and the same marks on every page.
C12_RemoveLastIsRemoveAtLast ==
    annotations # <<>> =>
        LET last == remove_last_annotation(Cur)
            at == remove_annotation_by_index(Cur, Len(annotations) - 1)
        IN  /\ last.ok = at.ok
            /\ last.ann = at.ann
            /\ last.marks = at.marks

\* the sequence without its i-th element
Without(seq, i) == SubSeq(seq, 1, i - 1) \o SubSeq(seq, i + 1, Len(seq))

\* C13: the Collection is kept in insertion order: a selection leaves the
\* entries there were in place and puts the entries it adds after them; a
\* delete by index or an undo that succeeds takes out one entry and leaves the
\* others in their order.
C13_InsertionOrder ==
    [][/\ (IsSingle(call') \/ IsMulti(call')) =>
             /\ Len(annotations') >= Len(annotations)
             /\ SubSeq(annotations', 1, Len(annotations)) = annotations
             /\ \A i \in (Len(annotations) + 1) .. Len(annotations') : annotations'[i].mark >= nextMark
       /\ (IsDelete(call') /\ Len(annotations') # Len(annotations)) => annotations' = Without(annotations, call'[2] + 1)
       /\ (IsUndo(call') /\ Len(annotations') # Len(annotations)) => annotations' = Without(annotations, Len(annotations))]_vars

\* reached: the first of three entries was deleted, and the two others are
\* left in the order they were added in
C13_Witness ==
    /\ IsDelete(call) /\ call[2] = 0
    /\ LastText(messages) = "Annotation deleted"
    /\ Len(annotations) = 2
    /\ annotations[1].mark < annotations[2].mark

\* the handler that ran last is loadPDF
IsLoad(c) == c[1] = "loadPDF"

\* the Collection entry e carries what the row r holds
EntryOfRow(e, r) ==
    /\ e.id = r.id
    /\ e.page = r.page
    /\ e.rect = <<r.rect_x0, r.rect_y0, r.rect_x1, r.rect_y1>>
    /\ e.text = r.text
    /\ e.type = r.type
    /\ e.field = r.field
    /\ e.line_item_number = r.line_item_number
    /\ e.standardized_date = r.standardized_date
    /\ e.is_multipage = r.is_multipage
    /\ r.is_multipage => (e.multipage_position = r.multipage_position /\ e.multipage_type = r.multipage_type /\ e.group_id = r.group_id)

\* the rows of the Store that were written for a file of this base name
RowsOfName(rows, name) == {r \in rows : r.file_name = name}

\* C14: when loadPDF has run, the Collection holds exactly the rows the Store
\* has for the base name of the file, each with the attributes and the id of
\* its row, in the order of get_annotations_for_file; and opening a file of
\* the same base name again while the Store is as it was gives the same
\* Collection.
C14_LoadedFromStore ==
    [][IsLoad(call') =>
          LET mine == RowsOfName(store', current_file'[Len(current_file')])
              loaded == get_annotations_for_file(store', current_file')
          IN  /\ Len(annotations') = Cardinality(mine)
              /\ {annotations'[i].id : i \in 1 .. Len(annotations')} = {r.id : r \in mine}
              /\ \A i \in 1 .. Len(annotations') : \E r \in mine : EntryOfRow(annotations'[i], r)
              /\ Len(loaded) = Len(annotations')
              /\ \A i \in 1 .. Len(annotations') : annotations'[i].id = loaded[i].id
              /\ (IsLoad(call) /\ current_file # <<>> /\ current_file'[Len(current_file')] = current_file[Len(current_file)]) => annotations' = annotations]_vars

\* reached: a file was opened and two entries were loaded for it while the
\* Store holds a row of a file of another name
C14_Witness ==
    /\ IsLoad(call)
    /\ Len(annotations) >= 2
    /\ \E r \in store : r.file_name # current_file[Len(current_file)]

\* C15: when a single-page selection of text T is accepted with field F, the
\* annotation A that is added and stored comes back from
\* get_annotations_for_file as a record with a newly given id and A's page,
\* rectangle, text, type, field and line item number; the page and the
\* rectangle are those of the selection, type, field and line item number
\* those chosen in the dialog; and when F is a date field and T parses as a
\* date, the record's standardized date is the canonical form of T.
C15_RoundTrip ==
    [][(IsSingle(call') /\ call'[3] # Cancel) =>
          LET A == annotations'[Len(annotations')]
              F == call'[3]
              T == call'[4]
              got == get_annotations_for_file(store', current_file')
          IN  /\ Len(annotations') = Len(annotations) + 1
              /\ A.id # 0
              /\ \A r \in store : r.id # A.id
              /\ A.page = call'[2] /\ A.rect = <<CoreStartPos[1], CoreStartPos[2], CoreEndPos[1], CoreEndPos[2]>>
              /\ A.type = F.type /\ A.field = F.field /\ A.line_item_number = F.line_item_number
              /\ Cardinality({k \in 1 .. Len(got) : got[k].id = A.id}) = 1
              /\ \A k \in 1 .. Len(got) :
                    got[k].id = A.id =>
                        /\ got[k].page = A.page
                        /\ <<got[k].rect_x0, got[k].rect_y0, got[k].rect_x1, got[k].rect_y1>> = A.rect
                        /\ got[k].text = A.text
                        /\ got[k].type = A.type
                        /\ got[k].field = A.field
                        /\ got[k].line_item_number = A.line_item_number
                        /\ (F.field \in DATE_FIELDS /\ standardize_date(T) # Absent) => got[k].standardized_date = standardize_date(T)
                        /\ (F.field \notin DATE_FIELDS \/ standardize_date(T) = Absent) => got[k].standardized_date = Absent]_vars

\* reached: a date in brackets was selected and accepted as an rfq_date, and
\* the Store holds its row with the date in canonical form
C15_Witness ==
    /\ IsSingle(call)
    /\ call[3].field = "rfq_date"
    /\ call[4] = <<"[", "2024/03/07", "]", "\n">>
    /\ annotations # <<>>
    /\ \E r \in store : r.id = annotations[Len(annotations)].id /\ r.text = <<"2024/03/07">> /\ r.standardized_date = "2024-03-07"

\* a comes before b by group id, then position in the group, then id
KeyBefore(a, b) ==
    \/ a.group_id < b.group_id
    \/ a.group_id = b.group_id /\ a.multipage_position < b.multipage_position
    \/ a.group_id = b.group_id /\ a.multipage_position = b.multipage_position /\ a.id < b.id

\* C16: for every path, get_annotations_for_file returns each row whose file
\* name is the base name of the path once and no other row, the same for two
\* paths of one base name, sorted by group id, position and id; so the
\* fragments of a group stand together in increasing position, and the rows
\* of no group are ordered by id.
C16_QueryByNameSorted ==
    \A f \in Files :
        LET got == get_annotations_for_file(store, f)
            idx == 1 .. Len(got)
        IN  /\ {got[k] : k \in idx} = {r \in store : r.file_name = f[Len(f)]}
            /\ Len(got) = Cardinality({r \in store : r.file_name = f[Len(f)]})
            /\ \A g \in Files : g[Len(g)] = f[Len(f)] => get_annotations_for_file(store, g) = got
            /\ \A i \in idx, j \in idx : i < j => KeyBefore(got[i], got[j])
            /\ \A i \in idx, j \in idx, k \in idx :
                  (i < j /\ j < k /\ got[i].group_id # 0 /\ got[i].group_id = got[k].group_id) => got[j].group_id = got[i].group_id
            /\ \A i \in idx, j \in idx :
                  (i < j /\ got[i].group_id # 0 /\ got[i].group_id = got[j].group_id) => got[i].multipage_position < got[j].multipage_position
            /\ \A i \in idx, j \in idx :
                  (i < j /\ ~got[i].is_multipage /\ ~got[j].is_multipage) => got[i].id < got[j].id

\* reached: the Store holds, for one file name, a row of no group written
\* after the rows of a group, and a row of another file name
C16_Witness ==
    \E r1 \in store, r2 \in store, r3 \in store :
        /\ r1.file_name = r2.file_name
        /\ r1.group_id = 0 /\ r2.group_id # 0 /\ r1.id > r2.id
        /\ r3.file_name # r1.file_name

\* C17: every id add_annotation gives out is greater than every id it gave out
\* before, also than the ids of rows deleted since (nextId is one more than
\* the largest id given out); and a row keeps its id and an id its row for as
\* long as the row is stored.
C17_IdsNeverReused ==
    [][/\ \A r \in store : r.id < nextId
       /\ nextId' >= nextId
       /\ \A q \in store' : (\A r \in store : r.id # q.id) => (q.id >= nextId /\ q.id < nextId')
       /\ \A q \in store', p \in store' : q.id = p.id => q = p
       /\ \A r \in store, q \in store' : r.id = q.id => r = q
       /\ \A i \in 1 .. Len(annotations') :
             (IsSingle(call') \/ IsMulti(call')) /\ i > Len(annotations) /\ annotations'[i].id # 0 =>
                 /\ annotations'[i].id >= nextId
                 /\ \A j \in 1 .. Len(annotations') : j # i => annotations'[j].id # annotations'[i].id
                 /\ \E q \in store' : q.id = annotations'[i].id /\ q.page = annotations'[i].page]_vars

\* reached: a selection was stored under a new id after a row had been
\* deleted
C17_Witness ==
    /\ IsSingle(call)
    /\ \E r \in store : r.id = nextId - 1
    /\ annotations # <<>> /\ annotations[Len(annotations)].id = nextId - 1
    /\ Cardinality(store) < nextId - 1

\* the rows that are committed: those of the table but the rows of the
\* connection's open transaction
Durable(rows, open) == {r \in rows : r.id \notin open}

\* C18: when the write of add_annotation fails (it returns None, so the entry
\* of the Collection gets no id), the Store holds the rows it held before; and
\* no later operation commits a row of an add_annotation that failed: a row
\* that becomes durable in a step was inserted by that step.
C18_FailedWriteLeavesStore ==
    [][/\ (IsSingle(call') /\ call'[3] # Cancel /\ FaultOf(call') # "none") =>
             /\ Len(annotations') = Len(annotations) + 1
             /\ annotations'[Len(annotations')].id = 0
             /\ store' = store
       /\ \A r \in Durable(store', pending') :
             r \notin Durable(store, pending) => (r \notin store /\ (IsSingle(call') \/ IsMulti(call')) /\ FaultOf(call') = "none")]_vars

\* what the dialog returned to the selection that ran last
ResponseOf(c) == IF IsMulti(c) THEN c[4] ELSE c[3]

\* C19: when the insert fails for a selection that was accepted, the status
\* bar shows a message, and the Collection holds no entry of the selection
\* that has a mark on its page and no id.
C19_FailedInsertSurfaced ==
    [][((IsSingle(call') \/ IsMulti(call')) /\ ResponseOf(call') # Cancel /\ FaultOf(call') # "none") =>
          /\ messages' # <<>>
          /\ \A i \in (Len(annotations) + 1) .. Len(annotations') :
                ~(annotations'[i].id = 0 /\ annotations'[i].mark \in MarkSet(marks', annotations'[i].page))]_vars

\* the call that ran last is AnnotationDB.remove_annotation
IsDbRemove(c) == c[1] = "remove_annotation"

\* the table holds a row of this id
Exists(rows, id) == \E r \in rows : r.id = id

\* C20 as stated: remove_annotation returns True exactly when a row of the id
\* existed, and the row is then gone; for an id that does not exist it returns
\* False and leaves the Store as it was, so a second delete of an id reports
\* not-found.
C20_Original ==
    [][IsDbRemove(call') =>
          /\ call'[3] <=> Exists(store, call'[2])
          /\ call'[3] => store' = {r \in store : r.id # call'[2]}
          /\ ~Exists(store, call'[2]) => store' = store]_vars

\* C20: remove_annotation returns True exactly when a row of the id existed
\* and the delete was written, and the row is then gone and the other rows
\* are left; when the write fails it returns False and the committed rows,
\* the row of the id with them, are as they were; for an id that does not exist it returns False and leaves the
\* table, the open transaction and the sequence as they were; and a delete
\* of the id of a delete that has just succeeded returns False.
C20_RemoveReportsOutcome ==
    [][IsDbRemove(call') =>
          /\ call'[3] <=> (Exists(store, call'[2]) /\ FaultOf(call') = "none")
          /\ call'[3] => store' = {r \in store : r.id # call'[2]}
          /\ (Exists(store, call'[2]) /\ FaultOf(call') # "none") =>
                /\ Durable(store', pending') = Durable(store, pending)
                /\ Exists(Durable(store, pending), call'[2]) => Exists(store', call'[2])
          /\ ~Exists(store, call'[2]) => (store' = store /\ pending' = pending /\ nextId' = nextId)
          /\ (IsDbRemove(call) /\ call[3] /\ call'[2] = call[2]) => ~call'[3]]_vars

\* reached: a row was deleted by its id and a second delete of that id
\* reported that it was not found, while another row is still stored
C20_Witness ==
    /\ IsDbRemove(call)
    /\ ~call[3]
    /\ FaultOf(call) = "none"
    /\ call[2] < nextId
    /\ ~Exists(store, call[2])
    /\ store # {}

\* the call that ran last is the handler's remove_annotation_by_index /
\* remove_last_annotation
IsRemoveAt(c) == c[1] = "remove_annotation_by_index"

IsRemoveLast(c) == c[1] = "remove_last_annotation"

\* the step left the Collection, the Store and the marks of every page alone
NothingRemoved == annotations' = annotations /\ store' = store /\ marks' = marks

\* C21: remove_annotation_by_index with an index below 0 or not below the
\* length of the Collection, and remove_last_annotation on the empty
\* Collection, return False, and the delete of a row that is not there and
\* the undo on the empty Collection show that nothing was deleted; each
\* leaves the Collection, the Store and the marks of every page as they were.
C21_OutOfRangeIsNoOp ==
    [][/\ (IsRemoveAt(call') /\ (call'[2] < 0 \/ call'[2] >= Len(annotations))) => (~call'[3] /\ NothingRemoved)
       /\ (IsRemoveLast(call') /\ annotations = <<>>) => (~call'[2] /\ NothingRemoved)
       /\ (IsDelete(call') /\ call'[2] >= Len(annotations)) => (LastText(messages') = "Invalid annotation index" /\ NothingRemoved)
       /\ (IsUndo(call') /\ annotations = <<>>) => (LastText(messages') = "No annotations to undo" /\ NothingRemoved)]_vars

\* reached: remove_annotation_by_index was called with index -1 on a
\* Collection of two entries whose marks are on their pages
C21_Witness ==
    /\ IsRemoveAt(call) /\ call[2] = 0 - 1
    /\ Len(annotations) = 2
    /\ \A i \in 1 .. 2 : annotations[i].mark \in MarkSet(marks, annotations[i].page)

\* the step took entry index (0-based) out of the Collection and one mark off
\* the page of that entry, and left the other entries and the marks of the
\* other pages alone
RemovedOneAt(index) ==
    LET page_num == annotations[index + 1].page
    IN  /\ annotations' = Without(annotations, index + 1)
        /\ \E j \in 1 .. Len(marks[page_num]) : marks'[page_num] = Without(marks[page_num], j)
        /\ \A q \in Pages : q # page_num => marks'[q] = marks[q]

\* C22: a remove_annotation_by_index(i) that succeeds, called directly or by
\* the delete button, removes exactly entry i from the Collection and exactly
\* one mark, from the page of entry i; the other entries and the marks of the
\* other pages are unchanged.
C22_RemoveAtFrame ==
    [][/\ (IsRemoveAt(call') /\ call'[3]) => RemovedOneAt(call'[2])
       /\ (IsDelete(call') /\ Len(annotations') # Len(annotations)) => RemovedOneAt(call'[2])]_vars

\* reached: the first of two entries was removed by its index; the entry
\* that is left has its mark, which stands alone on its page
C22_Witness ==
    /\ IsRemoveAt(call) /\ call[2] = 0 /\ call[3]
    /\ Len(annotations) = 1
    /\ marks[annotations[1].page] = <<annotations[1].mark>>
    /\ nextMark = 3

\* the group ids of the entries of a Collection and of the rows of a table
GroupIdsOf(ann, rows) == ({ann[i].group_id : i \in 1 .. Len(ann)} \cup {r.group_id : r \in rows}) \ {0}

\* C23: two multi-page selections never get the same group id: the fragments
\* a multi-page selection adds are all of one group id, which no entry and no
\* row has from an earlier selection, and which is not below the time of the
\* selection, while every group id given before, also that of fragments
\* deleted since, is below that time.
C23_GroupIdsDistinct ==
    [][/\ \A g \in GroupIdsOf(annotations, store) : g < clock
       /\ IsMulti(call') =>
             \A i \in (Len(annotations) + 1) .. Len(annotations') :
                 /\ annotations'[i].group_id # 0
                 /\ annotations'[i].group_id \notin GroupIdsOf(annotations, store)
                 /\ annotations'[i].group_id >= clock
                 /\ annotations'[i].group_id = annotations'[Len(annotations')].group_id]_vars

\* reached: a multi-page selection added its fragments to a Collection that
\* holds the fragments of an earlier one, under another group id
C23_Witness ==
    /\ IsMulti(call) /\ ResponseOf(call) # Cancel
    /\ Len(annotations) = 4
    /\ annotations[1].group_id # 0
    /\ annotations[2].group_id = annotations[1].group_id
    /\ annotations[3].group_id # annotations[1].group_id
    /\ annotations[4].group_id = annotations[3].group_id
    /\ annotations[4].id = nextId - 1

\* C24: when the highlight cannot be made for a selection that was accepted,
\* the selection adds nothing to the Collection and to the Store, and no
\* entry of the Collection is without its mark on its page because of it.
C24_FailedHighlightAborts ==
    [][((IsSingle(call') \/ IsMulti(call')) /\ ResponseOf(call') # Cancel /\ FaultOf(call') = HighlightFault) =>
          /\ annotations' = annotations
          /\ store' = store
          /\ \A i \in 1 .. Len(annotations') :
                annotations[i].mark \in MarkSet(marks, annotations[i].page) => annotations'[i].mark \in MarkSet(marks', annotations'[i].page)]_vars

\* what standardize_date returns for a text that parses
CanonicalDates == {"2024-03-07"}

\* the record has no standardized date, or is of a date field and has a date
\* in canonical form
DateWellFormed(x) ==
    x.standardized_date # Absent => (x.field \in DATE_FIELDS /\ x.standardized_date \in CanonicalDates)

\* the texts a standardized date of the fragment on page p of the selection
\* that ran last can come from: the text of the page and, for a span, the
\* complete text
SourceTexts(c, p) ==
    IF IsMulti(c) THEN {c[5][p], CompleteText(c[5], c[2], c[3])} ELSE {c[4]}

\* C25: every record of the Collection and of the Store either has no
\* standardized date or is of one of the fields rfq_date, due_date,
\* requested_delivery_date and has a date in canonical form, never an empty
\* string; and a record a selection adds has a standardized date only if a
\* text of the selection was normalized with success.
C25_DateOnlyWhenNormalized ==
    [][/\ \A i \in 1 .. Len(annotations') : DateWellFormed(annotations'[i])
       /\ \A r \in store' : DateWellFormed(r)
       /\ (IsSingle(call') \/ IsMulti(call')) =>
             /\ \A i \in (Len(annotations) + 1) .. Len(annotations') :
                   annotations'[i].standardized_date # Absent =>
                       \E t \in SourceTexts(call', annotations'[i].page) : annotations'[i].standardized_date = standardize_date(t)
             /\ \A r \in store' \ store :
                   r.standardized_date # Absent =>
                       \E t \in SourceTexts(call', r.page) : r.standardized_date = standardize_date(t)]_vars

\* reached: the Store holds a row of a date field with its date and a row of
\* another field whose text is a date, and the Collection an entry for each
C25_Witness ==
    /\ Len(annotations) = 2
    /\ \E r1 \in store, r3 \in store :
          /\ r1.field \in DATE_FIELDS /\ r1.standardized_date = "2024-03-07"
          /\ r3.field \notin DATE_FIELDS /\ r3.text = <<"2024/03/07">> /\ r3.standardized_date = Absent
          /\ {annotations[1].id, annotations[2].id} = {r1.id, r3.id}

\* C26: when a multi-page selection is accepted with a date field, every
\* fragment it adds to the Collection and every row it adds to the Store has
\* the standardized date that the complete text of the span normalizes to,
\* and none when the complete text does not normalize.
C26_SpanDateFromCompleteText ==
    [][(IsMulti(call') /\ ResponseOf(call') # Cancel /\ ResponseOf(call').field \in DATE_FIELDS) =>
          LET normalized == standardize_date(CompleteText(call'[5], call'[2], call'[3]))
          IN  /\ \A i \in (Len(annotations) + 1) .. Len(annotations') : annotations'[i].standardized_date = normalized
              /\ \A r \in store' \ store : r.standardized_date = normalized]_vars

\* C27: when a single-page selection is accepted with a date field, the text
\* of the entry and of the row it adds is the selected text without '[' and
\* ']' and without the whitespace around it, and their standardized date is
\* what that text normalizes to, a date of the form YYYY-MM-DD, when it
\* parses; when it does not parse the entry and the row are added all the
\* same, with no standardized date.
C27_SingleDateCleaned ==
    [][(IsSingle(call') /\ ResponseOf(call') # Cancel /\ ResponseOf(call').field \in DATE_FIELDS) =>
          LET cleaned == Strip(SelectSeq(call'[4], LAMBDA c : c # "[" /\ c # "]"))
              parses == Len(cleaned) = 1 /\ cleaned[1] \in DateTokens
              A == annotations'[Len(annotations')]
          IN  /\ Len(annotations') = Len(annotations) + 1
              /\ A.text = cleaned
              /\ A.standardized_date = IF parses THEN "2024-03-07" ELSE Absent
              /\ Cardinality(store' \ store) = 1
              /\ \A r \in store' \ store :
                    /\ r.id = A.id
                    /\ r.text = cleaned
                    /\ r.field = ResponseOf(call').field
                    /\ r.standardized_date = IF parses THEN "2024-03-07" ELSE Absent]_vars

\* reached: "[ 2024/03/07 ]" was selected and accepted as an rfq_date and is
\* stored with the text "2024/03/07" and the standardized date 2024-03-07
C27_Witness ==
    /\ IsSingle(call)
    /\ ResponseOf(call).field = "rfq_date"
    /\ call[4] = <<"[", " ", "2024/03/07", " ", "]">>
    /\ \E r \in store :
          /\ r.id = nextId - 1
          /\ r.text = <<"2024/03/07">>
          /\ r.standardized_date = "2024-03-07"
          /\ annotations[Len(annotations)].id = r.id
          /\ annotations[Len(annotations)].text = r.text

IsExport(c) == c[1] = "exportAnnotationsToCSV"

\* what export_annotations_to_csv returned in the call c
ExportReturned(c) == c[3]

\* C28: an export of an open file with no row in the Store returns False,
\* which is not the True a successful export with rows returns, and leaves
\* the destination as it was: no file is created and a file that is there is
\* not written; and an export of a file with rows whose writes succeed
\* returns True.
C28_EmptyExportWritesNothing ==
    [][IsExport(call') /\ current_file # <<>> =>
          /\ RowsOfName(store, Basename(current_file)) = {} => ExportReturned(call') = FALSE /\ csv' = csv
          /\ RowsOfName(store, Basename(current_file)) # {} /\ FaultOf(call') = "none" => ExportReturned(call') = TRUE /\ csv'.exists]_vars

\* an export of a file without rows has returned False, with no destination
\* file written, in a run where the Store holds rows of another file
C28_Witness ==
    /\ IsExport(call) /\ current_file # <<>> /\ FaultOf(call) = "none"
    /\ RowsOfName(store, Basename(current_file)) = {} /\ store # {}
    /\ ExportReturned(call) = FALSE /\ ~csv.exists

\* what the caller of export_annotations_to_csv gets back and what the
\* window then shows, for an export of the open file with no row in the Store
EmptyExportOutcome ==
    LET empty == ExportAndReport([Cur EXCEPT !.store = {}], current_file, "none", 0)
    IN  <<empty.ok, empty.messages>>

\* C29: when an export of a file with rows fails on writing the destination
\* file, what the call returns and what the window shows differ from what
\* an export of a file with no rows returns and shows.
C29_EmptyDistinctFromIoFailure ==
    [][IsExport(call') /\ current_file # <<>> /\ FaultOf(call') # "none" /\ RowsOfName(store, Basename(current_file)) # {} =>
          <<ExportReturned(call'), messages'>> # EmptyExportOutcome]_vars

\* the sort key of a row of the exported file
CsvKey(x) == <<Rank(FieldOrder, x.field), Rank(LineItemOrder, x.line_item_number), x.multipage_group, x.multipage_position, x.id>>

\* the tuple ka comes before kb, comparing component by component
LexLess(ka, kb) == \E i \in 1..Len(ka) : ka[i] < kb[i] /\ \A j \in 1..(i - 1) : ka[j] = kb[j]

\* C30: when an export has returned True, the destination file holds exactly
\* one row for each row the Store has for the base name of the open file and
\* no other row, each with the id, field, line item number and text of its
\* record and with the record's 0-based page plus one, and the rows are in
\* ascending order of (field_name, line_item_number, group_id,
\* multipage_position, id).
C30_ExportRowsOrdered ==
    [][IsExport(call') /\ ExportReturned(call') = TRUE =>
          LET recs == RowsOfName(store, Basename(current_file))
              out == csv'.rows
          IN  /\ csv'.exists
              /\ Len(out) = Cardinality(recs)
              /\ \A r \in recs : \E i \in 1..Len(out) :
                     /\ out[i].id = r.id /\ out[i].page = r.page + 1 /\ out[i].file_name = r.file_name
                     /\ out[i].field = r.field /\ out[i].line_item_number = r.line_item_number /\ out[i].text = r.text
              /\ \A i, j \in 1..Len(out) : i < j => LexLess(CsvKey(out[i]), CsvKey(out[j]))]_vars

\* an export has returned True with two rows of single-page annotations in
\* the file, the later record first (the load order has it second) and
\* written with page 2 for its stored page 1
C30_Witness ==
    /\ IsExport(call) /\ ExportReturned(call) = TRUE
    /\ Len(csv.rows) = 2 /\ csv.rows[1].id > csv.rows[2].id
    /\ csv.rows[1].is_multipage = 0 /\ csv.rows[2].is_multipage = 0
    /\ csv.rows[1].page = 2
    /\ \E r \in store : r.id = csv.rows[1].id /\ r.page = 1

\* C31: a loadPDF leaves every row of the Store as it was, the rows of the
\* file that was open and the rows of the file that is opened, and the
\* Collection it leaves holds none of the entries it held before unless the
\* Store has a row for it under the base name of the opened file: it is
\* empty when the Store has no row for that name.
C31_SwitchKeepsStore ==
    [][IsLoad(call') =>
          /\ store' = store /\ pending' = pending /\ nextId' = nextId
          /\ RowsOfName(store, Basename(current_file')) = {} => annotations' = <<>>
          /\ \A i \in 1..Len(annotations') : \E r \in RowsOfName(store, Basename(current_file')) : r.id = annotations'[i].id]_vars

\* a file without rows was opened after a file with rows: the Collection is
\* empty and the rows of the other file are still in the Store
C31_Witness ==
    /\ IsLoad(call) /\ annotations = <<>>
    /\ \E r \in store : r.file_name # Basename(current_file)

\* x is classified as the dialog classifies: 'meta' with a field of
\* META_FIELDS and no line item number, or 'line_item' with a field of
\* LINE_ITEM_FIELDS
WellClassified(x) ==
    /\ x.type = "meta" => x.line_item_number = "" /\ x.field \in META_FIELDS
    /\ x.type = "line_item" => x.field \in LINE_ITEM_FIELDS

\* C32: the classification the dialog was accepted with in the selection
\* that ran last, every entry of the Collection and every row of the Store
\* are such that type 'meta' goes with an empty line item number and a field
\* of META_FIELDS, and type 'line_item' with a field of LINE_ITEM_FIELDS.
C32_ClassificationWellFormed ==
    /\ (IsSingle(call) \/ IsMulti(call)) /\ ResponseOf(call) # Cancel => ResponseOf(call).type \in {"meta", "line_item"} /\ WellClassified(ResponseOf(call))
    /\ \A i \in 1..Len(annotations) : WellClassified(annotations[i])
    /\ \A r \in store : WellClassified(r)

\* the Collection and the Store hold a 'meta' record and a 'line_item' record
\* with a line item number
C32_Witness ==
    /\ \E i, j \in 1..Len(annotations) : annotations[i].type = "meta" /\ annotations[j].type = "line_item" /\ annotations[j].line_item_number # ""
    /\ \E r, q \in store : r.type = "meta" /\ q.type = "line_item" /\ q.line_item_number # ""

\* the selection of the call c was accepted as a line item with a number
AcceptedWithNumber(c) ==
    /\ IsSingle(c) \/ IsMulti(c)
    /\ ResponseOf(c) # Cancel /\ ResponseOf(c).type = "line_item" /\ ResponseOf(c).line_item_number # ""

\* C33: the remembered line item number is empty at the start; a selection
\* accepted as 'line_item' with a non-empty number sets it to that number,
\* and every other step (a 'meta' classification, a 'line_item' one with an
\* empty number, a cancellation, a delete, an undo, a loadPDF) leaves it as
\* it was; and every dialog a handler opens is opened with the number
\* remembered when the handler started.
C33_LastLineItemRemembered ==
    [][/\ call[1] = "init" => last_line_item_number = ""
       /\ last_line_item_number' = IF AcceptedWithNumber(call') THEN ResponseOf(call').line_item_number ELSE last_line_item_number
       /\ \A i \in 1..Len(prefill') : prefill'[i] = last_line_item_number
       /\ IsSingle(call') \/ IsMulti(call') => Len(prefill') = 1]_vars

\* after number 7 was remembered, a selection was classified 'meta' in a
\* dialog opened with 7, and 7 is still remembered
C33_Witness ==
    /\ IsSingle(call) \/ IsMulti(call)
    /\ ResponseOf(call) # Cancel /\ ResponseOf(call).type = "meta"
    /\ prefill = <<"7">> /\ last_line_item_number = "7"

\* the rect of fragment j of a span of k + 1 pages dragged from start to end
FragmentRect(j, k, start, end) ==
    IF j = 0 THEN <<start[1], start[2], PageRect[3], PageRect[4]>>
    ELSE IF j = k THEN <<0, 0, end[1], end[2]>>
    ELSE PageRect

C35_CancelKeepsMarks ==
    [][(IsSingle(call') \/ IsMulti(call')) /\ ResponseOf(call') = Cancel =>
          \A i \in 1..Len(annotations) :
              annotations[i].mark \in MarkSet(marks, annotations[i].page) => annotations[i].mark \in MarkSet(marks', annotations[i].page)]_vars

\* the ids of the entries of the Collection
CollectionIds == {annotations[i].id : i \in 1..Len(annotations)}

\* C36: with a database whose writes succeed, in every state a handler
\* leaves, every entry of the Collection has an id, no two entries have the
\* same id, and the ids of the Collection are exactly the ids of the rows
\* the Store holds under the base name of the open file (none before a file
\* is open).
C36_CollectionMirrorsStore ==
    /\ \A i \in 1..Len(annotations) : annotations[i].id # 0
    /\ \A i, j \in 1..Len(annotations) : annotations[i].id = annotations[j].id => i = j
    /\ CollectionIds = IF current_file = <<>> THEN {} ELSE {r.id : r \in RowsOfName(store, Basename(current_file))}

\* the Collection holds one entry of the open file, after another entry was
\* removed, while the Store also holds a row of a file of another name
C36_Witness ==
    /\ (IsDelete(call) \/ IsUndo(call)) /\ Len(annotations) = 1 /\ nextId = 4
    /\ \E r \in store : r.file_name # Basename(current_file)

\* the page of entry i (0-based) of the Collection has no mark
NoMarkOnPageOf(i) == marks[annotations[i + 1].page] = <<>>

\* C37: when the page of the entry to remove has no mark,
\* remove_annotation_by_index and remove_last_annotation return False and
\* leave the Collection as it was, and the delete button and the undo of the
\* window show that the removal failed and delete no row of the Store.
C37_NoMarkNoRemoval ==
    [][/\ (IsRemoveAt(call') /\ call'[2] >= 0 /\ call'[2] < Len(annotations) /\ NoMarkOnPageOf(call'[2])) => (call'[3] = FALSE /\ NothingRemoved)
       /\ (IsRemoveLast(call') /\ annotations # <<>> /\ NoMarkOnPageOf(Len(annotations) - 1)) => (call'[2] = FALSE /\ NothingRemoved)
       /\ (IsDelete(call') /\ call'[2] < Len(annotations) /\ NoMarkOnPageOf(call'[2])) => (LastText(messages') = "Failed to remove annotation" /\ NothingRemoved)
       /\ (IsUndo(call') /\ annotations # <<>> /\ NoMarkOnPageOf(Len(annotations) - 1)) => (LastText(messages') = "Failed to remove annotation" /\ NothingRemoved)]_vars

\* remove_last_annotation has returned False for a Collection whose last
\* entry has a row in the Store and is on a page without marks
C37_Witness ==
    /\ IsRemoveLast(call) /\ call[2] = FALSE
    /\ annotations # <<>> /\ NoMarkOnPageOf(Len(annotations) - 1)
    /\ \E r \in store : r.id = annotations[Len(annotations)].id

IsRelease(c) == c[1] = "mouseReleaseEvent"

\* the selection released in the call c is on no page or lies within one
\* page that reads nothing inside it
NoTextSelected(c) == c[2] < 0 \/ c[3] < 0 \/ (c[2] = c[3] /\ c[5][c[2]] = <<>>)

\* C38: a release that ends a selection in which no text is found opens no
\* dialog, creates no mark and leaves the Collection and the Store as they
\* were.
C38_EmptySelectionIsNoOp ==
    [][IsRelease(call') /\ NoTextSelected(call') =>
          /\ dialogs' = <<>>
          /\ marks' = marks /\ nextMark' = nextMark
          /\ annotations' = annotations
          /\ store' = store /\ nextId' = nextId]_vars

\* a selection within page 0 that holds no text was released while the
\* Collection and the Store hold a record
C38_Witness ==
    /\ IsRelease(call) /\ NoTextSelected(call) /\ call[2] = 0
    /\ annotations # <<>> /\ store # {}

\* C39: after every release of the left button that ends a selection drag,
\* with or without text selected, is_selecting is False and no selection
\* rectangle is left.
C39_ReleaseEndsSelection ==
    [][IsRelease(call') => is_selecting' = FALSE /\ selection_rect' = <<>>]_vars
====
